---- MODULE Spec2Model ----
(***************************************************************************)
(* Model of the styled-text core of mknyszek/eep (package text): the       *)
(* StringBuilder, String.Concat, the line partition String.lines and the   *)
(* measurement functions measureLine and String.Measure.                   *)
(*                                                                         *)
(* Texts are sequences of characters; floating-point extents are modelled  *)
(* by integers.  A panic raised by the library is modelled by the variable *)
(* status: no function of the repository calls recover(), so a panicking   *)
(* program runs no further operation.                                      *)
(***************************************************************************)
EXTENDS Integers, Sequences, FiniteSets, TLC

VARIABLES sb, held, status, locked, last, mem, reg, deck, ovl, ctx

vars == <<sb, held, status, locked, last, mem, reg, deck, ovl, ctx>>

\* The variables of the text package's client, and for every other part of
\* the program the variables it leaves alone.
textVars == <<sb, held, status, locked, last>>

exceptText == <<mem, reg, deck, ovl, ctx>>

exceptMem == <<textVars, reg, deck, ovl, ctx>>

exceptReg == <<textVars, mem, deck, ovl, ctx>>

exceptDeck == <<textVars, mem, reg, ovl, ctx>>

exceptOvl == <<textVars, mem, reg, deck, ctx>>

exceptCtx == <<textVars, mem, reg, deck, ovl>>

----------------------------------------------------------------------------
(* Bounds of the model.                                                    *)

\* Longest text handed to Append in specification Spec.
MaxTextLen == 2

\* Longest text over {a, newline} of a String handed to Box and AutoBox.
MaxBoxTextLen == 3

\* Most segments the builder holds in specification Spec.
MaxSegs == 4

\* Most segments the builder and the held String hold in specification SpecStr.
MaxStrSegs == 2

----------------------------------------------------------------------------
(* font.TextDirection and its four values.                                 *)

DirectionLeftToRight == 0

DirectionRightToLeft == 1

DirectionTopToBottomAndLeftToRight == 2

DirectionTopToBottomAndRightToLeft == 3

Directions ==
  { DirectionLeftToRight, DirectionRightToLeft,
    DirectionTopToBottomAndLeftToRight, DirectionTopToBottomAndRightToLeft }

IsHorizontal(d) == d = DirectionLeftToRight \/ d = DirectionRightToLeft

----------------------------------------------------------------------------
(* Characters, texts, faces and styles.                                    *)

NL == "\n"

Chars == {"a", NL}

\* Every text of at most n characters.
TextsUpTo(n) == UNION { [1..k -> Chars] : k \in 0..n }

\* The texts appended in specification Spec: every text up to the bound, and
\* the three-character text "a\nb".
Texts == TextsUpTo(MaxTextLen) \cup { <<"a", NL, "b">> }

\* The five-character text "Hello".
Hello == <<"H", "e", "l", "l", "o">>

\* The texts appended in specification SpecStr.
Pieces == { <<>>, <<"a">>, <<NL>>, Hello }

\* A font.Face: its direction, the advance of one character under the face
\* and the two ascent/descent pairs of its Metrics().
FaceOf(d) ==
  [ direction |-> d,
    adv       |-> 10,
    HAscent   |-> IF IsHorizontal(d) THEN 15 ELSE 12,
    HDescent  |-> IF IsHorizontal(d) THEN 5 ELSE 4,
    VAscent   |-> IF IsHorizontal(d) THEN 14 ELSE 11,
    VDescent  |-> IF IsHorizontal(d) THEN 10 ELSE 9 ]

Faces == { FaceOf(d) : d \in Directions }

\* Style{Face, Color}.
Styles == { [Face |-> f, Color |-> "white"] : f \in Faces }

StyleOf(d) == [Face |-> FaceOf(d), Color |-> "white"]

LineSpacings == {0, 1}

\* text.Advance(text, face): additive in the characters of the text.
Advance(text, face) == Len(text) * face.adv

Max2(a, b) == IF a >= b THEN a ELSE b

----------------------------------------------------------------------------
(* segment, String and StringBuilder values.                               *)

segment(text, style) == [text |-> text, style |-> style]

\* The zero value String{}: no segments, direction 0.
ZeroString == [segments |-> <<>>, direction |-> 0]

\* The zero value of StringBuilder, "ready for use".
ZeroBuilder == [s |-> ZeroString, nonZero |-> FALSE]

----------------------------------------------------------------------------
(* appendSegmentsFromText.                                                 *)

\* Index of the first newline of text, 0 when there is none.
IndexNL(text) ==
  IF \E i \in 1..Len(text) : text[i] = NL
    THEN CHOOSE i \in 1..Len(text) :
           text[i] = NL /\ \A j \in 1..(i - 1) : text[j] # NL
    ELSE 0

\* strings.Lines(text): the lines of text, each with its terminating newline;
\* a final line without a newline is yielded when it is not empty.
RECURSIVE StringsLines(_)
StringsLines(text) ==
  IF text = <<>> THEN <<>>
  ELSE LET i == IndexNL(text)
       IN IF i = 0 THEN <<text>>
          ELSE <<SubSeq(text, 1, i)>> \o StringsLines(SubSeq(text, i + 1, Len(text)))

\* strings.CutSuffix(line, "\n").
CutSuffix(line) ==
  IF Len(line) > 0 /\ line[Len(line)] = NL
    THEN [line |-> SubSeq(line, 1, Len(line) - 1), ok |-> TRUE]
    ELSE [line |-> line, ok |-> FALSE]

\* Faulty variant of appendLine: a line with no content adds no text segment.
appendLine_DropsEmpty(s, line, style) ==
  LET c  == CutSuffix(line)
      s1 == IF c.line = <<>> THEN s ELSE Append(s, segment(c.line, style))
  IN IF c.ok THEN Append(s1, segment(<<NL>>, style)) ELSE s1

\* The body of the loop of appendSegmentsFromText for one line.
appendLine(s, line, style) ==
  LET c  == CutSuffix(line)
      s1 == Append(s, segment(c.line, style))
  IN IF c.ok THEN Append(s1, segment(<<NL>>, style)) ELSE s1

RECURSIVE appendLines(_, _, _)
appendLines(s, ls, style) ==
  IF ls = <<>> THEN s
  ELSE appendLines(appendLine(s, Head(ls), style), Tail(ls), style)

appendSegmentsFromText(s, text, style) ==
  appendLines(s, StringsLines(text), style)

----------------------------------------------------------------------------
(* StringBuilder.Append, StringBuilder.String, StringBuilder.Reset.        *)

\* Faulty variant of BuilderAppend: the segments are appended before the
\* direction is compared.
BuilderAppend_AppendsFirst(b, text, style) ==
  LET dir == style.Face.direction
      b1  == IF ~b.nonZero
               THEN [s |-> [b.s EXCEPT !.direction = dir], nonZero |-> TRUE]
               ELSE b
      b2  == [b1 EXCEPT !.s.segments =
                appendSegmentsFromText(b1.s.segments, text, style)]
  IN [panic |-> b1.s.direction # dir, b |-> b2]

\* Faulty variant of BuilderAppend: the direction is never compared.
BuilderAppend_NoCheck(b, text, style) ==
  LET dir == style.Face.direction
      b1  == IF ~b.nonZero
               THEN [s |-> [b.s EXCEPT !.direction = dir], nonZero |-> TRUE]
               ELSE b
  IN [panic |-> FALSE,
      b |-> [b1 EXCEPT !.s.segments =
               appendSegmentsFromText(b1.s.segments, text, style)]]

\* The result of a call: the builder afterwards and whether the call panicked.
BuilderAppend(b, text, style) ==
  LET dir == style.Face.direction
      b1  == IF ~b.nonZero
               THEN [s |-> [b.s EXCEPT !.direction = dir], nonZero |-> TRUE]
               ELSE b
  IN IF b1.s.direction # dir
       THEN [panic |-> TRUE, b |-> b1]
       ELSE [panic |-> FALSE,
             b |-> [b1 EXCEPT !.s.segments =
                      appendSegmentsFromText(b1.s.segments, text, style)]]

BuilderString(b) == b.s

\* Faulty variant of BuilderReset: nonZero stays set.
BuilderReset_KeepsLock(b) == [s |-> ZeroString, nonZero |-> b.nonZero]

BuilderReset(b) == [s |-> ZeroString, nonZero |-> FALSE]

\* Style.Apply(text): the String of a new builder after one Append.
Apply(text, style) == BuilderString(BuilderAppend(ZeroBuilder, text, style).b)

----------------------------------------------------------------------------
(* String.Concat.                                                          *)

\* Faulty variant of StringConcat: the directions are never compared.
StringConcat_NoCheck(s, t) ==
  [panic |-> FALSE,
   r |-> [segments |-> s.segments \o t.segments, direction |-> s.direction]]

StringConcat(s, t) ==
  IF s.direction # t.direction
    THEN [panic |-> TRUE, r |-> ZeroString]
    ELSE [panic |-> FALSE,
          r |-> [segments |-> s.segments \o t.segments, direction |-> s.direction]]

----------------------------------------------------------------------------
(* String.lines, measureLine and String.Measure.                           *)

\* The loop of lines: i is the next index, first the start of the current line
\* (both 1-based); the slices yielded so far are in acc.
RECURSIVE linesFrom(_, _, _, _)
linesFrom(segs, i, first, acc) ==
  IF i > Len(segs)
    THEN Append(acc, SubSeq(segs, first, Len(segs)))
    ELSE IF segs[i].text = <<NL>>
           THEN linesFrom(segs, i + 1, i + 1, Append(acc, SubSeq(segs, first, i)))
           ELSE linesFrom(segs, i + 1, first, acc)

\* Faulty variant of Lines: the final slice is yielded only when it is not empty.
Lines_NoEmptyFinal(s) ==
  LET all == linesFrom(s.segments, 1, 1, <<>>)
  IN IF all[Len(all)] = <<>> THEN SubSeq(all, 1, Len(all) - 1) ELSE all

\* The sequence of slices s.lines() yields to a consumer that never stops it.
Lines(s) == linesFrom(s.segments, 1, 1, <<>>)

RECURSIVE measureLineFrom(_, _, _, _, _)
measureLineFrom(segments, direction, lineSpacing, primary, secondary) ==
  IF segments = <<>> THEN [priLen |-> primary, secLen |-> secondary]
  ELSE LET seg  == Head(segments)
           m    == seg.style.Face
           sec1 == IF IsHorizontal(direction)
                     THEN Max2(secondary, (m.HAscent + m.HDescent) * (lineSpacing + 1))
                     ELSE Max2(secondary, (m.VAscent + m.VDescent) * (lineSpacing + 1))
           pri1 == IF seg.text # <<NL>>
                     THEN primary + Advance(seg.text, seg.style.Face)
                     ELSE primary
       IN measureLineFrom(Tail(segments), direction, lineSpacing, pri1, sec1)

\* Faulty variant of measureLine: a newline marker advances like any text.
RECURSIVE measureLine_MarkerAdvancesFrom(_, _, _, _, _)
measureLine_MarkerAdvancesFrom(segments, direction, lineSpacing, primary, secondary) ==
  IF segments = <<>> THEN [priLen |-> primary, secLen |-> secondary]
  ELSE LET seg  == Head(segments)
           m    == seg.style.Face
           sec1 == IF IsHorizontal(direction)
                     THEN Max2(secondary, (m.HAscent + m.HDescent) * (lineSpacing + 1))
                     ELSE Max2(secondary, (m.VAscent + m.VDescent) * (lineSpacing + 1))
       IN measureLine_MarkerAdvancesFrom(Tail(segments), direction, lineSpacing,
                                         primary + Advance(seg.text, seg.style.Face), sec1)

measureLine_MarkerAdvances(segments, direction, lineSpacing) ==
  measureLine_MarkerAdvancesFrom(segments, direction, lineSpacing, 0, 0)

\* Faulty variant of measureLine: primary is the greatest advance of a segment
\* instead of the sum of the advances.
RECURSIVE measureLine_MaxAdvanceFrom(_, _, _, _, _)
measureLine_MaxAdvanceFrom(segments, direction, lineSpacing, primary, secondary) ==
  IF segments = <<>> THEN [priLen |-> primary, secLen |-> secondary]
  ELSE LET seg  == Head(segments)
           m    == seg.style.Face
           sec1 == IF IsHorizontal(direction)
                     THEN Max2(secondary, (m.HAscent + m.HDescent) * (lineSpacing + 1))
                     ELSE Max2(secondary, (m.VAscent + m.VDescent) * (lineSpacing + 1))
           pri1 == IF seg.text # <<NL>>
                     THEN Max2(primary, Advance(seg.text, seg.style.Face))
                     ELSE primary
       IN measureLine_MaxAdvanceFrom(Tail(segments), direction, lineSpacing, pri1, sec1)

measureLine_MaxAdvance(segments, direction, lineSpacing) ==
  measureLine_MaxAdvanceFrom(segments, direction, lineSpacing, 0, 0)

measureLine(segments, direction, lineSpacing) ==
  measureLineFrom(segments, direction, lineSpacing, 0, 0)

\* The accumulation loop of Measure over the lines not yet visited.
RECURSIVE measureTotalsFrom(_, _, _, _, _)
measureTotalsFrom(ls, direction, lineSpacing, primary, secondary) ==
  IF ls = <<>> THEN [primary |-> primary, secondary |-> secondary]
  ELSE LET inc == measureLine(Head(ls), direction, lineSpacing)
       IN measureTotalsFrom(Tail(ls), direction, lineSpacing,
                            Max2(primary, inc.priLen), secondary + inc.secLen)

\* Faulty variant of MeasureTotals: primary is summed like secondary.
RECURSIVE measureTotals_SumFrom(_, _, _, _, _)
measureTotals_SumFrom(ls, direction, lineSpacing, primary, secondary) ==
  IF ls = <<>> THEN [primary |-> primary, secondary |-> secondary]
  ELSE LET inc == measureLine(Head(ls), direction, lineSpacing)
       IN measureTotals_SumFrom(Tail(ls), direction, lineSpacing,
                                primary + inc.priLen, secondary + inc.secLen)

MeasureTotals_SumsPrimary(s, lineSpacing) ==
  measureTotals_SumFrom(Lines(s), s.direction, lineSpacing, 0, 0)

\* The totals primary and secondary of Measure when its loop ends.
MeasureTotals(s, lineSpacing) ==
  measureTotalsFrom(Lines(s), s.direction, lineSpacing, 0, 0)

\* geom.Dim(x, y).
Dim(x, y) == [X |-> x, Y |-> y]

\* Faulty variant of Measure: primary is X and secondary Y in every direction.
Measure_NeverSwaps(s, lineSpacing) ==
  LET t == MeasureTotals(s, lineSpacing)
  IN Dim(t.primary, t.secondary)

Measure(s, lineSpacing) ==
  LET t == MeasureTotals(s, lineSpacing)
  IN IF s.direction = DirectionLeftToRight \/ s.direction = DirectionRightToLeft
       THEN Dim(t.primary, t.secondary)
       ELSE Dim(t.secondary, t.primary)

----------------------------------------------------------------------------
(* Text boxes (box.go).                                                    *)
(*                                                                         *)
(* Coordinates are whole numbers of pixels.  float64 values are modelled   *)
(* by the integers they hold, for which Point.Image's math.Round and       *)
(* ImagePoint's float64() change nothing; every length the layout halves   *)
(* is even, so that x / 2 is the integer x \div 2.                         *)

\* Alignment.
AutoAlign == 0
Left == 1
Center == 2
Right == 3
Alignments == {AutoAlign, Left, Center, Right}

\* VertAlignment.
AutoVertAlign == 0
Top == 1
Middle == 2
Bottom == 3
VertAlignments == {AutoVertAlign, Top, Middle, Bottom}

\* geom.Pt and geom.Bound.
Pt(x, y) == [X |-> x, Y |-> y]

Bound(x0, y0, x1, y1) == [Min |-> Pt(x0, y0), Max |-> Pt(x1, y1)]

\* AABB.Dim: the width and height of a box.
AABBDim(a) == Dim(a.Max.X - a.Min.X, a.Max.Y - a.Min.Y)

\* Dimensions.AABB(start): the box of this size whose Min is start.
DimAABB(d, start) == [Min |-> start, Max |-> Pt(start.X + d.X, start.Y + d.Y)]

\* AABB.Image and ImageAABB convert between AABB and image.Rectangle; on whole
\* coordinates the rectangle has the corners of the box.
AABBImage(a) == [Min |-> Pt(a.Min.X, a.Min.Y), Max |-> Pt(a.Max.X, a.Max.Y)]

ImageAABB(r) == [Min |-> Pt(r.Min.X, r.Min.Y), Max |-> Pt(r.Max.X, r.Max.Y)]

\* image.ZR, Rectangle.Empty and Rectangle.Intersect of the standard library.
ZR == [Min |-> Pt(0, 0), Max |-> Pt(0, 0)]

Empty(r) == r.Min.X >= r.Max.X \/ r.Min.Y >= r.Max.Y

Min2(a, b) == IF a <= b THEN a ELSE b

Intersect(r, s) ==
  LET q == [Min |-> Pt(Max2(r.Min.X, s.Min.X), Max2(r.Min.Y, s.Min.Y)),
            Max |-> Pt(Min2(r.Max.X, s.Max.X), Min2(r.Max.Y, s.Max.Y))]
  IN IF Empty(q) THEN ZR ELSE q

\* The bounds of dst.SubImage(r) for an image of bounds dstBounds: r clipped to
\* the image, the zero rectangle when nothing is left.
SubImage(dstBounds, r) ==
  LET q == Intersect(r, dstBounds)
  IN IF Empty(q) THEN ZR ELSE q

\* BoxOptions.
BoxOptions(padding, lineSpacing, align, valign) ==
  [Padding |-> padding, LineSpacing |-> lineSpacing, Align |-> align, VertAlign |-> valign]

\* &BoxOptions{}: every field holds its zero value.
ZeroBoxOptions == BoxOptions(Dim(0, 0), 0, AutoAlign, AutoVertAlign)

\* What a closure of the machine leaves in pos; a nil closure, left by a switch
\* none of whose cases matched, cannot be called.
Sets(pos) == [nil |-> FALSE, pos |-> pos]

NilFunc(m) == [nil |-> TRUE, pos |-> m.pos]

\* Faulty variant of initHorizontal: selected by align in place of valign.
initHorizontal_ByAlign(m) ==
  LET o == m.orig
      b == m.boxDim
      t == m.txtDim
  IN CASE m.align \in {Left, AutoAlign} ->
            Sets([m.pos EXCEPT !.Y = o.Y])
       [] m.align = Center ->
            Sets([m.pos EXCEPT !.Y = o.Y + (b.Y \div 2) - (t.Y \div 2)])
       [] m.align = Right ->
            Sets([m.pos EXCEPT !.Y = o.Y + b.Y - t.Y])
       [] OTHER -> NilFunc(m)

\* m.init for the two horizontal directions, selected by valign.
initHorizontal(m) ==
  LET o == m.orig
      b == m.boxDim
      t == m.txtDim
  IN CASE m.valign \in {Top, AutoVertAlign} ->
            Sets([m.pos EXCEPT !.Y = o.Y])
       [] m.valign = Middle ->
            Sets([m.pos EXCEPT !.Y = o.Y + (b.Y \div 2) - (t.Y \div 2)])
       [] m.valign = Bottom ->
            Sets([m.pos EXCEPT !.Y = o.Y + b.Y - t.Y])
       [] OTHER -> NilFunc(m)

\* Faulty variant of initVerticalLTR: Center as in the right-to-left stack.
initVerticalLTR_FarCenter(m) ==
  LET o == m.orig
      b == m.boxDim
      t == m.txtDim
  IN CASE m.align \in {Left, AutoAlign} ->
            Sets([m.pos EXCEPT !.X = o.X])
       [] m.align = Center ->
            Sets([m.pos EXCEPT !.X = o.X + b.X - ((b.X - t.X) \div 2)])
       [] m.align = Right ->
            Sets([m.pos EXCEPT !.X = o.X + b.X - t.X])
       [] OTHER -> NilFunc(m)

\* m.init for top-to-bottom lines stacked left to right, selected by align.
initVerticalLTR(m) ==
  LET o == m.orig
      b == m.boxDim
      t == m.txtDim
  IN CASE m.align \in {Left, AutoAlign} ->
            Sets([m.pos EXCEPT !.X = o.X])
       [] m.align = Center ->
            Sets([m.pos EXCEPT !.X = o.X + (b.X \div 2) - (t.X \div 2)])
       [] m.align = Right ->
            Sets([m.pos EXCEPT !.X = o.X + b.X - t.X])
       [] OTHER -> NilFunc(m)

\* Faulty variant of initVerticalRTL: Center as in the left-to-right stack.
initVerticalRTL_NearCenter(m) ==
  LET o == m.orig
      b == m.boxDim
      t == m.txtDim
  IN CASE m.align = Left ->
            Sets([m.pos EXCEPT !.X = o.X + t.X])
       [] m.align = Center ->
            Sets([m.pos EXCEPT !.X = o.X + (b.X \div 2) - (t.X \div 2)])
       [] m.align \in {Right, AutoAlign} ->
            Sets([m.pos EXCEPT !.X = o.X + b.X])
       [] OTHER -> NilFunc(m)

\* Faulty variant of initVerticalRTL: AutoAlign as Left.
initVerticalRTL_AutoLeft(m) ==
  LET o == m.orig
      b == m.boxDim
      t == m.txtDim
  IN CASE m.align \in {Left, AutoAlign} ->
            Sets([m.pos EXCEPT !.X = o.X + t.X])
       [] m.align = Center ->
            Sets([m.pos EXCEPT !.X = o.X + b.X - ((b.X - t.X) \div 2)])
       [] m.align = Right ->
            Sets([m.pos EXCEPT !.X = o.X + b.X])
       [] OTHER -> NilFunc(m)

\* m.init for top-to-bottom lines stacked right to left, selected by align.
initVerticalRTL(m) ==
  LET o == m.orig
      b == m.boxDim
      t == m.txtDim
  IN CASE m.align = Left ->
            Sets([m.pos EXCEPT !.X = o.X + t.X])
       [] m.align = Center ->
            Sets([m.pos EXCEPT !.X = o.X + b.X - ((b.X - t.X) \div 2)])
       [] m.align \in {Right, AutoAlign} ->
            Sets([m.pos EXCEPT !.X = o.X + b.X])
       [] OTHER -> NilFunc(m)

\* m.init, as newBoxDrawMachine selects it from dir, align and valign.
machineInit(m) ==
  CASE m.dir \in {DirectionLeftToRight, DirectionRightToLeft} -> initHorizontal(m)
    [] m.dir = DirectionTopToBottomAndLeftToRight -> initVerticalLTR(m)
    [] m.dir = DirectionTopToBottomAndRightToLeft -> initVerticalRTL(m)
    [] OTHER -> NilFunc(m)

\* Faulty variant of m.moveInLine: right-to-left lines advance toward
\* increasing X too.
moveInLine_AlwaysAdds(m, a) ==
  CASE m.dir \in {DirectionLeftToRight, DirectionRightToLeft} ->
         Sets([m.pos EXCEPT !.X = m.pos.X + a])
    [] m.dir \in {DirectionTopToBottomAndLeftToRight,
                  DirectionTopToBottomAndRightToLeft} ->
         Sets([m.pos EXCEPT !.Y = m.pos.Y + a])
    [] OTHER -> NilFunc(m)

\* m.moveInLine.
moveInLine(m, a) ==
  CASE m.dir = DirectionLeftToRight -> Sets([m.pos EXCEPT !.X = m.pos.X + a])
    [] m.dir = DirectionRightToLeft -> Sets([m.pos EXCEPT !.X = m.pos.X - a])
    [] m.dir \in {DirectionTopToBottomAndLeftToRight,
                  DirectionTopToBottomAndRightToLeft} ->
         Sets([m.pos EXCEPT !.Y = m.pos.Y + a])
    [] OTHER -> NilFunc(m)

\* Faulty variant of m.endLine: no case for lines stacked right to left, which
\* leaves the closure nil.
endLine_NoVerticalRTL(m, a) ==
  CASE m.dir \in {DirectionLeftToRight, DirectionRightToLeft} ->
         Sets([m.pos EXCEPT !.Y = m.pos.Y + a])
    [] m.dir = DirectionTopToBottomAndLeftToRight ->
         Sets([m.pos EXCEPT !.X = m.pos.X + a])
    [] OTHER -> NilFunc(m)

\* Faulty variant of m.endLine: lines stacked right to left advance X like
\* lines stacked left to right.
endLine_AlwaysAdds(m, a) ==
  CASE m.dir \in {DirectionLeftToRight, DirectionRightToLeft} ->
         Sets([m.pos EXCEPT !.Y = m.pos.Y + a])
    [] m.dir \in {DirectionTopToBottomAndLeftToRight,
                  DirectionTopToBottomAndRightToLeft} ->
         Sets([m.pos EXCEPT !.X = m.pos.X + a])
    [] OTHER -> NilFunc(m)

\* m.endLine.
endLine(m, a) ==
  CASE m.dir \in {DirectionLeftToRight, DirectionRightToLeft} ->
         Sets([m.pos EXCEPT !.Y = m.pos.Y + a])
    [] m.dir = DirectionTopToBottomAndLeftToRight ->
         Sets([m.pos EXCEPT !.X = m.pos.X + a])
    [] m.dir = DirectionTopToBottomAndRightToLeft ->
         Sets([m.pos EXCEPT !.X = m.pos.X - a])
    [] OTHER -> NilFunc(m)

\* Faulty variant of m.startLine: left-to-right Center halves the box only.
startLine_HalfBox(m, primary) ==
  LET o == m.orig
      b == m.boxDim
  IN CASE m.dir = DirectionLeftToRight ->
            ( CASE m.align \in {Left, AutoAlign} ->
                     Sets([m.pos EXCEPT !.X = o.X])
                [] m.align = Center ->
                     Sets([m.pos EXCEPT !.X = o.X + (b.X \div 2) - primary])
                [] m.align = Right ->
                     Sets([m.pos EXCEPT !.X = o.X + b.X - primary])
                [] OTHER -> NilFunc(m) )
       [] m.dir = DirectionRightToLeft ->
            ( CASE m.align = Left ->
                     Sets([m.pos EXCEPT !.X = o.X + primary])
                [] m.align = Center ->
                     Sets([m.pos EXCEPT !.X = o.X + b.X - ((b.X - primary) \div 2)])
                [] m.align \in {Right, AutoAlign} ->
                     Sets([m.pos EXCEPT !.X = o.X + b.X])
                [] OTHER -> NilFunc(m) )
       [] m.dir \in {DirectionTopToBottomAndLeftToRight,
                     DirectionTopToBottomAndRightToLeft} ->
            ( CASE m.valign \in {Top, AutoVertAlign} ->
                     Sets([m.pos EXCEPT !.Y = o.Y])
                [] m.valign = Middle ->
                     Sets([m.pos EXCEPT !.Y = o.Y + ((b.Y - primary) \div 2)])
                [] m.valign = Bottom ->
                     Sets([m.pos EXCEPT !.Y = o.Y + b.Y - primary])
                [] OTHER -> NilFunc(m) )
       [] OTHER -> NilFunc(m)

\* Faulty variant of m.startLine: right-to-left lines start as left-to-right
\* lines do.
startLine_NearEdgeRTL(m, primary) ==
  LET o == m.orig
      b == m.boxDim
  IN CASE m.dir \in {DirectionLeftToRight, DirectionRightToLeft} ->
            ( CASE m.align = Left \/ (m.align = AutoAlign /\ m.dir = DirectionLeftToRight) ->
                     Sets([m.pos EXCEPT !.X = o.X])
                [] m.align = Center /\ m.dir = DirectionLeftToRight ->
                     Sets([m.pos EXCEPT !.X = o.X + ((b.X - primary) \div 2)])
                [] m.align = Center /\ m.dir = DirectionRightToLeft ->
                     Sets([m.pos EXCEPT !.X = o.X + b.X - ((b.X - primary) \div 2)])
                [] m.align = Right \/ (m.align = AutoAlign /\ m.dir = DirectionRightToLeft) ->
                     Sets([m.pos EXCEPT !.X = o.X + b.X - primary])
                [] OTHER -> NilFunc(m) )
       [] m.dir \in {DirectionTopToBottomAndLeftToRight,
                     DirectionTopToBottomAndRightToLeft} ->
            ( CASE m.valign \in {Top, AutoVertAlign} ->
                     Sets([m.pos EXCEPT !.Y = o.Y])
                [] m.valign = Middle ->
                     Sets([m.pos EXCEPT !.Y = o.Y + ((b.Y - primary) \div 2)])
                [] m.valign = Bottom ->
                     Sets([m.pos EXCEPT !.Y = o.Y + b.Y - primary])
                [] OTHER -> NilFunc(m) )
       [] OTHER -> NilFunc(m)

\* m.startLine.
startLine(m, primary) ==
  LET o == m.orig
      b == m.boxDim
  IN CASE m.dir = DirectionLeftToRight ->
            ( CASE m.align \in {Left, AutoAlign} ->
                     Sets([m.pos EXCEPT !.X = o.X])
                [] m.align = Center ->
                     Sets([m.pos EXCEPT !.X = o.X + ((b.X - primary) \div 2)])
                [] m.align = Right ->
                     Sets([m.pos EXCEPT !.X = o.X + b.X - primary])
                [] OTHER -> NilFunc(m) )
       [] m.dir = DirectionRightToLeft ->
            ( CASE m.align = Left ->
                     Sets([m.pos EXCEPT !.X = o.X + primary])
                [] m.align = Center ->
                     Sets([m.pos EXCEPT !.X = o.X + b.X - ((b.X - primary) \div 2)])
                [] m.align \in {Right, AutoAlign} ->
                     Sets([m.pos EXCEPT !.X = o.X + b.X])
                [] OTHER -> NilFunc(m) )
       [] m.dir \in {DirectionTopToBottomAndLeftToRight,
                     DirectionTopToBottomAndRightToLeft} ->
            ( CASE m.valign \in {Top, AutoVertAlign} ->
                     Sets([m.pos EXCEPT !.Y = o.Y])
                [] m.valign = Middle ->
                     Sets([m.pos EXCEPT !.Y = o.Y + ((b.Y - primary) \div 2)])
                [] m.valign = Bottom ->
                     Sets([m.pos EXCEPT !.Y = o.Y + b.Y - primary])
                [] OTHER -> NilFunc(m) )
       [] OTHER -> NilFunc(m)

\* new(boxDrawMachine) with orig, boxDim and txtDim assigned: pos is the zero
\* Point; dir, align and valign stand for the closures selected from them.
newMachine(orig, boxDim, txtDim, dir, align, valign) ==
  [pos |-> Pt(0, 0), orig |-> orig, boxDim |-> boxDim, txtDim |-> txtDim,
   dir |-> dir, align |-> align, valign |-> valign]

\* newBoxDrawMachine: the machine after m.init(m); panic if m.init is nil.
newBoxDrawMachine(orig, boxDim, txtDim, dir, align, valign) ==
  LET m == newMachine(orig, boxDim, txtDim, dir, align, valign)
      r == machineInit(m)
  IN [panic |-> r.nil, m |-> [m EXCEPT !.pos = r.pos]]

\* The methods StartLine, MoveInLine and EndLine call the closures.
StartLine(m, priLen) ==
  LET r == startLine(m, priLen)
  IN [panic |-> r.nil, m |-> [m EXCEPT !.pos = r.pos]]

MoveInLine(m, priAmt) ==
  LET r == moveInLine(m, priAmt)
  IN [panic |-> r.nil, m |-> [m EXCEPT !.pos = r.pos]]

EndLine(m, secLen) ==
  LET r == endLine(m, secLen)
  IN [panic |-> r.nil, m |-> [m EXCEPT !.pos = r.pos]]

\* One step of a layout pass: ev is "init", "StartLine", "Draw", "MoveInLine"
\* or "EndLine", line the number of the line being laid out (0 for init), seg
\* the index in txt.segments of the segment drawn or advanced over (0 when
\* there is none), arg the length handed to the machine and pos the cursor
\* after the step (for Draw, the position text.Draw translates to).
Event(ev, line, seg, arg, pos) ==
  [ev |-> ev, line |-> line, seg |-> seg, arg |-> arg, pos |-> pos]

\* Faulty variant of drawSegments: newline markers are drawn and advanced over
\* like every other segment.
RECURSIVE drawSegments_DrawsMarkers(_, _, _, _, _, _)
drawSegments_DrawsMarkers(m, segments, i, line, base, trace) ==
  IF i > Len(segments) THEN [panic |-> FALSE, m |-> m, trace |-> trace]
  ELSE LET seg   == segments[i]
           a     == Advance(seg.text, seg.style.Face)
           drawn == Append(trace, Event("Draw", line, base + i, 0, Pt(m.pos.X, m.pos.Y)))
           r     == MoveInLine(m, a)
       IN IF r.panic
            THEN [panic |-> TRUE, m |-> m, trace |-> drawn]
            ELSE drawSegments_DrawsMarkers(r.m, segments, i + 1, line, base,
                   Append(drawn, Event("MoveInLine", line, base + i, a, r.m.pos)))

\* The inner loop of drawString over segments[i..], base segments of
\* txt.segments preceding the line.
RECURSIVE drawSegments(_, _, _, _, _, _)
drawSegments(m, segments, i, line, base, trace) ==
  IF i > Len(segments) THEN [panic |-> FALSE, m |-> m, trace |-> trace]
  ELSE LET seg == segments[i]
       IN IF seg.text = <<NL>>
            THEN drawSegments(m, segments, i + 1, line, base, trace)
            ELSE LET a     == Advance(seg.text, seg.style.Face)
                     drawn == Append(trace, Event("Draw", line, base + i, 0, Pt(m.pos.X, m.pos.Y)))
                     r     == MoveInLine(m, a)
                 IN IF r.panic
                      THEN [panic |-> TRUE, m |-> m, trace |-> drawn]
                      ELSE drawSegments(r.m, segments, i + 1, line, base,
                             Append(drawn, Event("MoveInLine", line, base + i, a, r.m.pos)))

\* The outer loop of drawString over the slices lines[k..] that txt.lines()
\* yields.
RECURSIVE drawLines(_, _, _, _, _, _, _)
drawLines(m, lines, k, base, direction, lineSpacing, trace) ==
  IF k > Len(lines) THEN [panic |-> FALSE, m |-> m, trace |-> trace]
  ELSE LET segments == lines[k]
           ml       == measureLine(segments, direction, lineSpacing)
           st       == StartLine(m, ml.priLen)
       IN IF st.panic
            THEN [panic |-> TRUE, m |-> m, trace |-> trace]
            ELSE LET d == drawSegments(st.m, segments, 1, k, base,
                            Append(trace, Event("StartLine", k, 0, ml.priLen, st.m.pos)))
                     e == EndLine(d.m, ml.secLen)
                 IN IF d.panic THEN d
                    ELSE IF e.panic THEN [panic |-> TRUE, m |-> d.m, trace |-> d.trace]
                    ELSE drawLines(e.m, lines, k + 1, base + Len(segments),
                                   direction, lineSpacing,
                                   Append(d.trace, Event("EndLine", k, 0, ml.secLen, e.m.pos)))

\* drawString on the sub-image of bounds dstBounds: m0 is the machine that
\* newBoxDrawMachine returned, m the machine and trace the steps when the pass
\* ended, panic whether it ended in a call of a nil closure.
drawString(dstBounds, txt, orig, txtDim, boxOpts) ==
  LET c == newBoxDrawMachine(orig, AABBDim(ImageAABB(dstBounds)), txtDim,
                             txt.direction, boxOpts.Align, boxOpts.VertAlign)
  IN IF c.panic
       THEN [panic |-> TRUE, m0 |-> c.m, m |-> c.m, trace |-> <<>>]
       ELSE LET r == drawLines(c.m, Lines(txt), 1, 0, txt.direction, boxOpts.LineSpacing,
                               << Event("init", 0, 0, 0, c.m.pos) >>)
            IN [panic |-> r.panic, m0 |-> c.m, m |-> r.m, trace |-> r.trace]

\* Faulty variant of Box: the origin is moved inwards by the padding.
Box_PadsOrigin(dstBounds, txt, bounds, boxOpts) ==
  LET sub == SubImage(dstBounds, AABBImage(bounds))
      o   == Pt(bounds.Min.X + boxOpts.Padding.X, bounds.Min.Y + boxOpts.Padding.Y)
  IN drawString(sub, txt, o, Measure(txt, boxOpts.LineSpacing), boxOpts)

\* Box(dst, txt, bounds, boxOpts) on an image of bounds dstBounds.
Box(dstBounds, txt, bounds, boxOpts) ==
  LET sub == SubImage(dstBounds, AABBImage(bounds))
  IN drawString(sub, txt, bounds.Min, Measure(txt, boxOpts.LineSpacing), boxOpts)

\* The position AutoBox moves pos to; anchor counts halves, so that
\* anchor.X * dim.X is (anchor.X * dim.X) \div 2.
AutoBoxPos(pos, anchor, dim) ==
  Pt(pos.X - ((anchor.X * dim.X) \div 2), pos.Y - ((anchor.Y * dim.Y) \div 2))

\* AutoBox(dst, txt, pos, anchor) on an image of bounds dstBounds.
AutoBox(dstBounds, txt, pos, anchor) ==
  LET dim == Measure(txt, 0)
      p   == AutoBoxPos(pos, anchor, dim)
      sub == SubImage(dstBounds, AABBImage(DimAABB(dim, p)))
  IN drawString(sub, txt, p, dim, ZeroBoxOptions)

\* The image the boxes are drawn into: dst.Bounds().
DstBounds == [Min |-> Pt(0, 0), Max |-> Pt(200, 100)]

\* The texts of the Strings handed to Box and AutoBox.
BoxTexts == TextsUpTo(MaxBoxTextLen) \cup { <<"a", "a", "a", "a">>, Hello }

\* The Strings handed to Box and AutoBox: every text applied under every style
\* and, for every style, a Concat whose first line holds two segments.
BoxStrings ==
  { Apply(text, style) : text \in BoxTexts, style \in Styles }
    \cup { StringConcat(Apply(<<"a">>, style), Apply(<<"a", NL, "a">>, style)).r :
             style \in Styles }

\* The bounds handed to Box: inside the image, of no extent, with Max before
\* Min, and reaching beyond the image on either side.
BoxBounds ==
  { Bound(0, 0, 100, 20), Bound(0, 0, 100, 60), Bound(20, 10, 120, 70),
    Bound(20, 10, 20, 10), Bound(60, 40, 20, 10),
    Bound(150, 50, 250, 130), Bound(-20, -10, 80, 30) }

\* The paddings in the options handed to Box.
Paddings == { Dim(0, 0), Dim(10, 10) }

\* The points and the anchors (in halves) handed to AutoBox.
AutoBoxPoints == { Pt(100, 50), Pt(0, 0), Pt(190, 90) }

Anchors == { Dim(x, y) : x \in {0, 1, 2}, y \in {0, 1, 2} }

\* No layout pass yet.
NoPass ==
  LET m == newMachine(Pt(0, 0), Dim(0, 0), Dim(0, 0), DirectionLeftToRight,
                      AutoAlign, AutoVertAlign)
  IN [panic |-> FALSE, m0 |-> m, m |-> m, trace |-> <<>>]

\* The arguments of a Box or AutoBox call and its layout pass.
NoBox ==
  [ call |-> "none", bounds |-> Bound(0, 0, 0, 0), boxOpts |-> ZeroBoxOptions,
    pos |-> Pt(0, 0), anchor |-> Dim(0, 0), pass |-> NoPass ]

----------------------------------------------------------------------------
(* The slices behind a String.                                             *)
(*                                                                         *)
(* mem holds what specification SpecMem follows: heap, the backing arrays  *)
(* of the []segment slices (array k is heap[k], every cell of its capacity *)
(* present); bld, the StringBuilder with its slice as a header (arr, len,  *)
(* cap) and the position of the Append in progress; strs, the two String   *)
(* variables of the client, the first assigned from String() and the       *)
(* second from Concat, each with the value observed through it when it was *)
(* assigned.                                                               *)

\* The nil slice.
NilSlice == [arr |-> 0, len |-> 0, cap |-> 0]

\* String{} and the zero StringBuilder, their slices as headers.
ZeroStringHdr == [segments |-> NilSlice, direction |-> 0]

ZeroMemBuilder ==
  [s |-> ZeroStringHdr, nonZero |-> FALSE, pc |-> "idle", loc |-> NilSlice, pend |-> <<>>]

\* A String variable of the client before its first assignment: String{}.
ZeroVar == [s |-> ZeroStringHdr, seen |-> [segments |-> <<>>, direction |-> 0]]

MemInit == [heap |-> <<>>, bld |-> ZeroMemBuilder, strs |-> <<ZeroVar, ZeroVar>>]

----------------------------------------------------------------------------
(* The registry of font sources (package font).                            *)
(*                                                                         *)
(* reg holds what specification SpecReg follows.  A source is a number     *)
(* 1..born, the weak pointer made from it is that number (two weak         *)
(* pointers are equal when made from the same object), and FontNone        *)
(* stands for the nil source and for no entry.  map is sourceRegistry;     *)
(* cleanups the (name, source) pairs handed to runtime.AddCleanup and not  *)
(* yet run, ran those that ran; held the sources the client's variables    *)
(* refer to; collected the sources the garbage collector found             *)
(* unreachable; procs the goroutines with their call in progress; latest   *)
(* the source of the RegisterSource call of the client that completed last *)
(* under each name.                                                        *)

\* The nil source; no entry.
FontNone == 0

\* The names looked up, the names the client registers sources under, and the
\* full names of the system fonts (a lookup of "B" can match system font "A").
FontNames == {"A", "B"}

RegNames == {"A"}

SysNames == {"A"}

\* The names sources get registered under, by the client or by FindSource.
CleanupNames == RegNames \cup SysNames

\* The goroutines: the one calling FindSource and the one calling
\* RegisterSource.
Finders == {1}

Registrars == {2}

Procs == Finders \cup Registrars

\* A goroutine between two calls.
IdleProc ==
  [pc |-> "idle", name |-> "A", sf |-> "A", src |-> FontNone, sys |-> FALSE, pre |-> FontNone]

\* No FindSource call has returned yet.
NoReturn == [returned |-> FALSE, src |-> FontNone, ok |-> FALSE, sys |-> FALSE, pre |-> FontNone]

RegInit ==
  [ map |-> [n \in FontNames |-> FontNone], cleanups |-> {}, ran |-> {}, born |-> 0,
    held |-> {}, collected |-> {}, procs |-> [p \in Procs |-> IdleProc],
    ret |-> NoReturn,
    latest |-> [n \in FontNames |-> FontNone] ]

(* Slide decks (specification SpecDeck).                                   *)
(*                                                                         *)
(* deck holds the StaticDecks of the program, one ChainDeck, and a record  *)
(* of the latest call.  A StaticDeck is its currSlide and its slides, the  *)
(* slides being the numbers 1..len; a member of the ChainDeck is the name  *)
(* of a StaticDeck or OtherDeck, a SlideDeck of some other implementation  *)
(* whose Next and Prev answer with any status.                             *)

\* DeckStatus.
DeckOK == 0

DeckBusy == 1

DeckEnd == 2

DeckStatuses == {DeckOK, DeckBusy, DeckEnd}

\* The StaticDecks of the program, and a SlideDeck that is not a StaticDeck.
StaticDecks == {"d1", "d2"}

OtherDeck == "other"

\* The zero values.
ZeroStaticDeck == [currSlide |-> 0, slides |-> <<>>]

ZeroChainDeck == [decks |-> <<>>, currDeck |-> 0]

\* No call yet.  on is the deck called ("chain" for the ChainDeck), status the
\* result of Next or Prev, pre and preChain the StaticDeck the call reached and
\* the ChainDeck before the call, fwd whether the ChainDeck forwarded the call,
\* fwdTo the member, fwdStatus what the member answered, slide the slide that
\* Update or Draw reached.  prev tells of the call before: the op and the
\* slide displayed before it if it was a Next or Prev of the ChainDeck that
\* returned DeckOK, else NoPrev.
NoPrev == [op |-> "none", member |-> OtherDeck, currSlide |-> 0]

NoDeckCall ==
  [ op |-> "none", on |-> "chain", status |-> DeckOK, pre |-> ZeroStaticDeck,
    preChain |-> ZeroChainDeck, fwd |-> FALSE, fwdTo |-> OtherDeck, fwdStatus |-> DeckOK,
    slide |-> 0, panicked |-> FALSE, prev |-> NoPrev ]

\* nav tells how the decks were navigated so far: "setup" before the first
\* Next or Prev, "chain" while every Next and Prev went through the ChainDeck
\* and no Append followed one, "mixed" otherwise.
DeckInit ==
  [ static |-> [d \in StaticDecks |-> ZeroStaticDeck], chain |-> ZeroChainDeck,
    last |-> NoDeckCall, nav |-> "setup" ]

(* Overlay (specification SpecOverlay).                                    *)
(*                                                                         *)
(* ovl holds the slideStack that Overlay returned and, of the latest call  *)
(* of its Update or Draw, the calls it made on its slides in order and the *)
(* error it returned.                                                      *)

\* The slides: one made by Static, whose Update returns nil, and two made by
\* Dynamic, whose update function returns nil or an error.
Slides == {"s", "d1", "d2"}

DynamicSlides == {"d1", "d2"}

\* No Overlay yet.
OvlInit == [slides |-> <<>>, op |-> "none", trace |-> <<>>, failing |-> {}, err |-> FALSE]

(* The vector graphics Context (specification SpecCtx).                    *)
(*                                                                         *)
(* ctx holds the fields of a Context that Arrow uses: matrix, a            *)
(* translation given by the point the origin goes to; strokeOpts.Width;    *)
(* path, the commands of the current path with their points after the      *)
(* transformation; and of the latest call its arguments, the path before   *)
(* it and the paths it drew to dst, in order.                              *)

\* No vector added to a point.
NoVec == [from |-> Pt(0, 0), to |-> Pt(0, 0), len |-> 0, turn |-> 0]

\* No call yet.
NoCtxCall == [op |-> "none", src |-> Pt(0, 0), dst |-> Pt(0, 0), prePath |-> <<>>, draws |-> <<>>]

\* The Context NewContext returns.
CtxInit == [matrix |-> Pt(0, 0), width |-> 0, path |-> <<>>, last |-> NoCtxCall]

\* The parts of the program besides the client of the text package, before
\* their first operation.
RestInit == mem = MemInit /\ reg = RegInit /\ deck = DeckInit /\ ovl = OvlInit
  /\ ctx = CtxInit

----------------------------------------------------------------------------
(* The state machine.                                                      *)
(*                                                                         *)
(* sb is the client's StringBuilder, held a String variable of the client. *)
(* last records the latest call: its arguments, the builder before it and  *)
(* what it returned (yielded: the slices the call drew from lines()).      *)
(* locked is a history variable: the set holding the direction of the      *)
(* first Append that returned since the builder was created or reset,      *)
(* empty if there was none.                                                *)

NoCall ==
  [ op |-> "none", text |-> <<>>, style |-> StyleOf(DirectionLeftToRight),
    lineSpacing |-> 0, pre |-> ZeroBuilder, preLocked |-> {},
    s |-> ZeroString, t |-> ZeroString, keep |-> FALSE, panicked |-> FALSE,
    preHeld |-> ZeroString, result |-> ZeroString, yielded |-> <<>>,
    dim |-> Dim(0, 0), via |-> "none", left |-> ZeroString, right |-> ZeroString,
    box |-> NoBox ]

Init ==
  /\ sb = ZeroBuilder
  /\ held = ZeroString
  /\ status = "running"
  /\ locked = {}
  /\ last = NoCall
  /\ RestInit

\* sb.Append(text, style), the builder holding at most cap segments.
AppendCall(text, style, cap) ==
  /\ status = "running"
  /\ LET r == BuilderAppend(sb, text, style)
     IN /\ r.panic \/ Len(r.b.s.segments) <= cap
        /\ sb' = r.b
        /\ status' = IF r.panic THEN "panicked" ELSE "running"
        /\ locked' = IF ~r.panic /\ locked = {}
                       THEN {style.Face.direction} ELSE locked
        /\ last' = [NoCall EXCEPT !.op = "Append", !.text = text, !.style = style,
                                  !.pre = sb, !.preLocked = locked,
                                  !.panicked = r.panic]
  /\ UNCHANGED <<held, exceptText>>

AppendText == \E text \in Texts, style \in Styles : AppendCall(text, style, MaxSegs)

AppendPiece == \E text \in Pieces, style \in Styles : AppendCall(text, style, MaxStrSegs)

\* sb.Reset().
Reset ==
  /\ status = "running"
  /\ sb' = BuilderReset(sb)
  /\ locked' = {}
  /\ last' = [NoCall EXCEPT !.op = "Reset", !.pre = sb, !.preLocked = locked]
  /\ UNCHANGED <<held, status, exceptText>>

\* sb.String().Measure(lineSpacing).
MeasureBuilt ==
  /\ status = "running"
  /\ \E lineSpacing \in LineSpacings :
       LET s == BuilderString(sb)
       IN last' = [NoCall EXCEPT !.op = "Measure", !.s = s,
                                 !.lineSpacing = lineSpacing,
                                 !.yielded = Lines(s),
                                 !.dim = Measure(s, lineSpacing)]
  /\ UNCHANGED <<sb, held, status, locked, exceptText>>

\* held = sb.String().
StringCall ==
  /\ status = "running"
  /\ held' = BuilderString(sb)
  /\ last' = [NoCall EXCEPT !.op = "String", !.pre = sb, !.result = BuilderString(sb)]
  /\ UNCHANGED <<sb, status, locked, exceptText>>

\* The operand of a Concat: the held String or the builder's String.
Operand(which) == IF which = "held" THEN held ELSE BuilderString(sb)

\* x.Concat(y); with keep the client assigns the result to held.
ConcatCall ==
  /\ status = "running"
  /\ \E x \in {"held", "built"}, y \in {"held", "built"}, keep \in BOOLEAN :
       LET s == Operand(x)
           t == Operand(y)
           c == StringConcat(s, t)
       IN /\ (keep /\ ~c.panic) => Len(c.r.segments) <= MaxStrSegs
          /\ c.panic => ~keep
          /\ status' = IF c.panic THEN "panicked" ELSE "running"
          /\ held' = IF keep /\ ~c.panic THEN c.r ELSE held
          /\ last' = [NoCall EXCEPT !.op = "Concat", !.s = s, !.t = t,
                                    !.pre = sb, !.preHeld = held,
                                    !.keep = keep, !.panicked = c.panic,
                                    !.result = c.r]
  /\ UNCHANGED <<sb, locked, exceptText>>

\* r.Measure(lineSpacing) on the String r that the latest call, a String() or
\* a Concat, returned; left and right keep the operands of the Concat.
MeasureResult ==
  /\ status = "running"
  /\ last.op \in {"String", "Concat"}
  /\ \E lineSpacing \in LineSpacings :
       LET r == last.result
       IN last' = [NoCall EXCEPT !.op = "Measure", !.via = last.op, !.s = r,
                                 !.left = last.s, !.right = last.t,
                                 !.lineSpacing = lineSpacing,
                                 !.yielded = Lines(r),
                                 !.dim = Measure(r, lineSpacing)]
  /\ UNCHANGED <<sb, held, status, locked, exceptText>>

\* The client of a text box holds the arguments of one call, drawn from the
\* sets above: of Box (txt, bounds, boxOpts) or of AutoBox (txt, pos, anchor).
BoxArgs ==
  { [NoCall EXCEPT !.s = txt, !.lineSpacing = lineSpacing,
                   !.box = [NoBox EXCEPT !.call = "Box", !.bounds = bounds,
                              !.boxOpts = BoxOptions(padding, lineSpacing, align, valign)]] :
      txt \in BoxStrings, bounds \in BoxBounds, padding \in Paddings,
      lineSpacing \in LineSpacings, align \in Alignments, valign \in VertAlignments }

AutoBoxArgs ==
  { [NoCall EXCEPT !.s = txt,
                   !.box = [NoBox EXCEPT !.call = "AutoBox", !.pos = pos,
                                         !.anchor = anchor]] :
      txt \in BoxStrings, pos \in AutoBoxPoints, anchor \in Anchors }

InitBox ==
  /\ sb = ZeroBuilder
  /\ held = ZeroString
  /\ status = "running"
  /\ locked = {}
  /\ last \in BoxArgs \cup AutoBoxArgs
  /\ RestInit

\* text.Box(dst, txt, bounds, boxOpts) with the arguments the client holds.
BoxCall ==
  /\ status = "running"
  /\ last.box.call = "Box"
  /\ LET r == Box(DstBounds, last.s, last.box.bounds, last.box.boxOpts)
     IN /\ last' = [last EXCEPT !.op = "Box", !.panicked = r.panic, !.box.pass = r]
        /\ status' = IF r.panic THEN "panicked" ELSE "running"
  /\ UNCHANGED <<sb, held, locked, exceptText>>

\* text.AutoBox(dst, txt, pos, anchor) with the arguments the client holds.
AutoBoxCall ==
  /\ status = "running"
  /\ last.box.call = "AutoBox"
  /\ LET r == AutoBox(DstBounds, last.s, last.box.pos, last.box.anchor)
     IN /\ last' = [last EXCEPT !.op = "AutoBox", !.panicked = r.panic, !.box.pass = r]
        /\ status' = IF r.panic THEN "panicked" ELSE "running"
  /\ UNCHANGED <<sb, held, locked, exceptText>>

\* The builder alone: Append of every bounded text, Reset and Measure.
Next == AppendText \/ Reset \/ MeasureBuilt

Spec == Init /\ [][Next]_vars

\* Strings composed of short pieces: Append, Reset, String and Concat.
NextStr == AppendPiece \/ Reset \/ StringCall \/ ConcatCall \/ MeasureResult

SpecStr == Init /\ [][NextStr]_vars

\* Text boxes: Box and AutoBox on the Strings of BoxStrings.
NextBox == BoxCall \/ AutoBoxCall

SpecBox == InitBox /\ [][NextBox]_vars

----------------------------------------------------------------------------
(* Helpers of the properties.                                              *)

IsMarker(seg) == seg.text = <<NL>>

IsEmpty(x) == Len(x.segments) = 0

\* The direction of the face of the first segment of a String with segments.
SegmentsDirection(x) == x.segments[1].style.Face.direction

RECURSIVE Flatten(_)
Flatten(seqs) == IF seqs = <<>> THEN <<>> ELSE Head(seqs) \o Flatten(Tail(seqs))

\* The segments Append added to the builder during the latest call.
Added == SubSeq(sb.s.segments, Len(last.pre.s.segments) + 1, Len(sb.s.segments))

\* The positions at which a line of text starts: the first character and the
\* character after every newline, as far as the text reaches.
LineStarts(text) ==
  { b \in 1..Len(text) : b = 1 \/ text[b - 1] = NL }

\* The position of the newline that ends the line starting at b, 0 if none.
LineEnd(text, b) ==
  IF \E e \in b..Len(text) : text[e] = NL
    THEN CHOOSE e \in b..Len(text) :
           text[e] = NL /\ \A j \in b..(e - 1) : text[j] # NL
    ELSE 0

\* What the line starting at b contributes: its content, then a marker when a
\* newline ended it.
LinePieces(text, b, style) ==
  LET e == LineEnd(text, b)
  IN IF e = 0 THEN << segment(SubSeq(text, b, Len(text)), style) >>
     ELSE << segment(SubSeq(text, b, e - 1), style), segment(<<NL>>, style) >>

\* The k-th line start of text in increasing order.
KthStart(text, k) ==
  CHOOSE b \in LineStarts(text) :
    Cardinality({ x \in LineStarts(text) : x < b }) = k - 1

ExpectedSegments(text, style) ==
  Flatten([ k \in 1..Cardinality(LineStarts(text)) |->
              LinePieces(text, KthStart(text, k), style) ])

----------------------------------------------------------------------------
(* Properties of the builder (specification Spec).                         *)

\* C1: an Append that returns adds, for each line of the text in order, one
\* text segment with the line's content without its newline (also when that
\* content is empty) and then one newline marker exactly when the line ended in
\* a newline: "a\n" adds [a, "\n"], "\na" adds ["", "\n", a], "a\nb" adds
\* [a, "\n", b], and text that does not end in a newline adds no trailing empty
\* segment.  The segments held before are kept.
C1_AppendSplitsLines ==
  (last.op = "Append" /\ ~last.panicked) =>
    /\ sb.s.segments = last.pre.s.segments \o ExpectedSegments(last.text, last.style)
    /\ last.text = <<"a", NL>> =>
         Added = << segment(<<"a">>, last.style), segment(<<NL>>, last.style) >>
    /\ last.text = <<NL, "a">> =>
         Added = << segment(<<>>, last.style), segment(<<NL>>, last.style),
                    segment(<<"a">>, last.style) >>
    /\ last.text = <<"a", NL, "b">> =>
         Added = << segment(<<"a">>, last.style), segment(<<NL>>, last.style),
                    segment(<<"b">>, last.style) >>
    /\ (last.text # <<>> /\ last.text[Len(last.text)] # NL) =>
         Added[Len(Added)].text # <<>>

\* C1 witness: an Append of "a\nb" returned on a builder that already held
\* segments.
C1_Witness ==
  /\ last.op = "Append"
  /\ ~last.panicked
  /\ last.text = <<"a", NL, "b">>
  /\ Len(last.pre.s.segments) > 0
  /\ Len(Added) = 3

\* C2: the slices yielded by lines() of a String, concatenated in order, are
\* the String's segment sequence, and there is one slice more than there are
\* newline markers in the String.
C2_LinesPartition ==
  last.op = "Measure" =>
    /\ Flatten(last.yielded) = last.s.segments
    /\ Len(last.yielded) =
         Cardinality({ i \in 1..Len(last.s.segments) : IsMarker(last.s.segments[i]) }) + 1

\* C2 witness: lines() has yielded a String whose last segment is a marker.
C2_Witness ==
  /\ last.op = "Measure"
  /\ Len(last.s.segments) >= 3
  /\ IsMarker(last.s.segments[Len(last.s.segments)])
  /\ Len(last.yielded) >= 2

\* The segments of a String built by appending "\n\n" under one style.
TwoNewlines(style) ==
  << segment(<<>>, style), segment(<<NL>>, style),
     segment(<<>>, style), segment(<<NL>>, style) >>

\* (hAscent + hDescent) or (vAscent + vDescent) of the face, for its own
\* direction, times (1 + lineSpacing).
FaceLineSize(face, lineSpacing) ==
  IF IsHorizontal(face.direction)
    THEN (face.HAscent + face.HDescent) * (1 + lineSpacing)
    ELSE (face.VAscent + face.VDescent) * (1 + lineSpacing)

MeasuredLine(k) == measureLine(last.yielded[k], last.s.direction, last.lineSpacing)

\* C3 as stated: the String built from "\n\n" is partitioned into exactly 2
\* lines, each measuring primaryLen 0 and secondaryLen the face's line size at
\* line spacing 0.
C3_TwoLines ==
  (last.op = "Measure" /\ last.lineSpacing = 0
     /\ \E style \in Styles : last.s.segments = TwoNewlines(style)) =>
    /\ Len(last.yielded) = 2
    /\ \A k \in 1..Len(last.yielded) :
         /\ MeasuredLine(k).priLen = 0
         /\ MeasuredLine(k).secLen = FaceLineSize(last.s.segments[1].style.Face, 0)

\* C3 amended: the String built from "\n\n" is partitioned into exactly 3
\* lines; the first two each hold an empty text segment and a marker and
\* measure primaryLen 0 and secondaryLen the face's line size at line spacing 0;
\* the third is the empty slice after the last marker and measures (0, 0).
C3_ThreeLines ==
  (last.op = "Measure" /\ last.lineSpacing = 0
     /\ \E style \in Styles : last.s.segments = TwoNewlines(style)) =>
    /\ Len(last.yielded) = 3
    /\ \A k \in 1..2 :
         /\ Len(last.yielded[k]) = 2
         /\ MeasuredLine(k).priLen = 0
         /\ MeasuredLine(k).secLen = FaceLineSize(last.s.segments[1].style.Face, 0)
    /\ last.yielded[3] = <<>>
    /\ MeasuredLine(3).priLen = 0
    /\ MeasuredLine(3).secLen = 0

\* C3 witness: the String built from "\n\n" under a vertical face has been
\* measured at line spacing 0.
C3_Witness ==
  /\ last.op = "Measure"
  /\ last.lineSpacing = 0
  /\ last.s.segments = TwoNewlines(StyleOf(DirectionTopToBottomAndRightToLeft))

\* The latest call is an Append whose style's face direction differs from the
\* direction the builder was locked to.
AppendOfOtherDirection ==
  /\ last.op = "Append"
  /\ last.preLocked # {}
  /\ last.style.Face.direction \notin last.preLocked

\* C4: an Append whose style's face direction differs from the builder's locked
\* direction fails with the direction mismatch and has no effect: the
\* builder's segments and its direction are what they were before the call.
C4_FailedAppendNoEffect ==
  AppendOfOtherDirection =>
    /\ last.panicked
    /\ sb.s.segments = last.pre.s.segments
    /\ sb.s.direction = last.pre.s.direction
    /\ sb = last.pre
    /\ locked = last.preLocked

\* C4 witness: a vertical text was appended to a builder holding horizontal
\* segments.
C4_Witness ==
  /\ AppendOfOtherDirection
  /\ Len(last.pre.s.segments) > 0
  /\ \A d \in last.preLocked : IsHorizontal(d)
  /\ ~IsHorizontal(last.style.Face.direction)
  /\ last.text # <<>>

\* C7 as stated: whenever the builder holds no segments, the next Append
\* succeeds for a style of each of the four directions.
C7_EmptyBuilderAcceptsAll ==
  (last.op = "Append" /\ Len(last.pre.s.segments) = 0) => ~last.panicked

\* C8: the first Append since creation or Reset succeeds for every direction
\* and locks the builder to that direction; until Reset every Append of another
\* direction is rejected and every Append of the locked direction succeeds and
\* keeps the lock; Reset leaves the builder with no segments and unlocked, in
\* the state of a new builder.
C8_LockUntilReset ==
  /\ (last.op = "Append" /\ last.preLocked = {}) =>
       /\ ~last.panicked
       /\ locked = {last.style.Face.direction}
       /\ sb.nonZero
       /\ sb.s.direction = last.style.Face.direction
  /\ (last.op = "Append" /\ last.preLocked # {}) =>
       /\ last.panicked <=> last.style.Face.direction \notin last.preLocked
       /\ locked = last.preLocked
       /\ locked = {sb.s.direction}
  /\ last.op = "Reset" =>
       /\ Len(sb.s.segments) = 0
       /\ locked = {}
       /\ sb = ZeroBuilder
  /\ locked # {} => locked = {sb.s.direction}

\* C8 witness: Reset has acted on a builder that was locked and held segments.
C8_Witness ==
  /\ last.op = "Reset"
  /\ last.preLocked = {DirectionTopToBottomAndLeftToRight}
  /\ Len(last.pre.s.segments) > 0
  /\ sb = ZeroBuilder

\* The extent of a Dimensions value along the primary axis of a direction (X
\* for the horizontal directions, Y for the vertical ones) and along the
\* secondary axis.
PrimaryExtent(dim, d) == IF IsHorizontal(d) THEN dim.X ELSE dim.Y

SecondaryExtent(dim, d) == IF IsHorizontal(d) THEN dim.Y ELSE dim.X

MaxOf(S) == CHOOSE m \in S : \A x \in S : x <= m

RECURSIVE SumTo(_, _)
SumTo(f, n) == IF n = 0 THEN 0 ELSE SumTo(f, n - 1) + f[n]

\* C10: Measure returns a block whose primary extent is the greatest
\* primaryLen of the lines yielded by lines() and whose secondary extent is the
\* sum of their secondaryLen.
C10_MeasureMaxAndSum ==
  last.op = "Measure" =>
    LET n == Len(last.yielded)
    IN /\ n >= 1
       /\ PrimaryExtent(last.dim, last.s.direction) =
            MaxOf({ MeasuredLine(k).priLen : k \in 1..n })
       /\ SecondaryExtent(last.dim, last.s.direction) =
            SumTo([ k \in 1..n |-> MeasuredLine(k).secLen ], n)

\* C10 witness: a String of at least two lines of different, non-zero primary
\* lengths has been measured.
C10_Witness ==
  /\ last.op = "Measure"
  /\ \E j, k \in 1..Len(last.yielded) :
       /\ MeasuredLine(j).priLen > MeasuredLine(k).priLen
       /\ MeasuredLine(k).priLen > 0
       /\ MeasuredLine(j).secLen > 0
       /\ MeasuredLine(k).secLen > 0

\* Face.Resize(size) with twice the size: the same face, every metric and
\* advance scaled with the size.
Resize(face) ==
  [face EXCEPT !.adv = 2 * @, !.HAscent = 2 * @, !.HDescent = 2 * @,
               !.VAscent = 2 * @, !.VDescent = 2 * @]

\* The measured lines with each segment under its face or under the resized
\* face: segments of one line need not share their metrics.
Restylings(line) ==
  { [i \in DOMAIN line |->
       IF big[i] THEN [line[i] EXCEPT !.style.Face = Resize(@)] ELSE line[i]] :
      big \in [DOMAIN line -> BOOLEAN] }

\* (ascent + descent) * (1 + lineSpacing) of a face, with the horizontal pair
\* for the horizontal directions and the vertical pair for the vertical ones.
PairSize(face, direction, lineSpacing) ==
  IF direction \in {DirectionLeftToRight, DirectionRightToLeft}
    THEN (face.HAscent + face.HDescent) * (1 + lineSpacing)
    ELSE (face.VAscent + face.VDescent) * (1 + lineSpacing)

\* C34: measureLine returns as primaryLen the sum of the advances of the
\* line's segments that are no markers and as secondaryLen the greatest
\* (ascent + descent) * (1 + lineSpacing) over all segments of the line, the
\* marker included, with the ascent/descent pair of the direction; a line
\* without segments measures (0, 0).
C34_MeasureLineSumAndMax ==
  last.op = "Measure" =>
    \A k \in DOMAIN last.yielded : \A line \in Restylings(last.yielded[k]) :
      LET r == measureLine(line, last.s.direction, last.lineSpacing)
      IN /\ r.priLen =
              SumTo([ i \in DOMAIN line |->
                        IF IsMarker(line[i]) THEN 0
                        ELSE Advance(line[i].text, line[i].style.Face) ],
                    Len(line))
         /\ r.secLen =
              IF line = <<>> THEN 0
              ELSE MaxOf({ PairSize(line[i].style.Face, last.s.direction,
                                    last.lineSpacing) : i \in DOMAIN line })
         /\ line = <<>> => r = [priLen |-> 0, secLen |-> 0]

\* C34 witness: a String was measured of which one line holds two segments of
\* different advance before its marker and the final line holds no segment;
\* restyled with the marker alone under the resized face, the first line
\* takes its secondaryLen from the marker.
C34_Witness ==
  /\ last.op = "Measure"
  /\ last.lineSpacing = 1
  /\ ~IsHorizontal(last.s.direction)
  /\ Len(last.yielded) = 2
  /\ last.yielded[2] = <<>>
  /\ LET line == last.yielded[1]
     IN /\ Len(line) = 3
        /\ ~IsMarker(line[1]) /\ ~IsMarker(line[2]) /\ IsMarker(line[3])
        /\ Len(line[1].text) # Len(line[2].text)
        /\ Len(line[1].text) > 0 /\ Len(line[2].text) > 0
        /\ LET marked == [line EXCEPT ![3].style.Face = Resize(@)]
               r      == measureLine(marked, last.s.direction, last.lineSpacing)
           IN /\ marked \in Restylings(line)
              /\ r.priLen = Advance(line[1].text, line[1].style.Face)
                              + Advance(line[2].text, line[2].style.Face)
              /\ r.secLen = 2 * MeasuredLine(1).secLen
              /\ r.secLen = (line[3].style.Face.VAscent + line[3].style.Face.VDescent) * 4

----------------------------------------------------------------------------
(* Properties of Strings and Concat (specification SpecStr).               *)

\* The latest call detected a direction mismatch: an Append to a builder
\* locked to another direction, or a Concat of Strings of different direction.
MismatchDetected ==
  \/ /\ last.op = "Append"
     /\ last.pre.nonZero
     /\ last.pre.s.direction # last.style.Face.direction
  \/ /\ last.op = "Concat"
     /\ last.s.direction # last.t.direction

C6_ConcatFailsOnlyWhenBothLocked ==
  last.op = "Concat" =>
    /\ last.panicked <=>
         /\ ~IsEmpty(last.s)
         /\ ~IsEmpty(last.t)
         /\ SegmentsDirection(last.s) # SegmentsDirection(last.t)
    /\ (IsEmpty(last.s) /\ ~IsEmpty(last.t)) =>
         /\ ~last.panicked
         /\ last.result.direction = SegmentsDirection(last.t)
    /\ (IsEmpty(last.t) /\ ~IsEmpty(last.s)) =>
         /\ ~last.panicked
         /\ last.result.direction = SegmentsDirection(last.s)

\* Every segment of the String has a face of the String's direction.
DirectionConsistent(x) ==
  \A i \in 1..Len(x.segments) : x.segments[i].style.Face.direction = x.direction

\* C9: in every String obtained by Append, Reset, String and Concat calls that
\* returned, the face direction of every segment is the String's direction.
C9_SegmentsShareDirection ==
  /\ DirectionConsistent(sb.s)
  /\ DirectionConsistent(held)
  /\ (last.op \in {"String", "Concat"} /\ ~last.panicked) =>
       DirectionConsistent(last.result)

\* C9 witness: a Concat of two Strings with segments returned a String of a
\* direction other than the zero value's.
C9_Witness ==
  /\ last.op = "Concat"
  /\ ~last.panicked
  /\ ~IsEmpty(last.s)
  /\ ~IsEmpty(last.t)
  /\ last.result.direction = DirectionTopToBottomAndRightToLeft
  /\ Len(last.result.segments) = Len(last.s.segments) + Len(last.t.segments)

\* C11: Measure maps the block extents to Dimensions by direction: (primary,
\* secondary) for the two horizontal directions and (secondary, primary) for
\* the two vertical ones, primary being the greatest primaryLen of the lines
\* and secondary the sum of their secondaryLen.  One run "Hello" of advance 50
\* under a face of line size 20 measures (50, 20) when the face is horizontal
\* left-to-right and (20, 50) when it is vertical.
C11_MeasureMapsAxes ==
  last.op = "Measure" =>
    LET n == Len(last.yielded)
        P == MaxOf({ MeasuredLine(k).priLen : k \in 1..n })
        S == SumTo([ k \in 1..n |-> MeasuredLine(k).secLen ], n)
    IN /\ IsHorizontal(last.s.direction) => last.dim = Dim(P, S)
       /\ ~IsHorizontal(last.s.direction) => last.dim = Dim(S, P)
       /\ (last.lineSpacing = 0
             /\ last.s.segments = << segment(Hello, StyleOf(DirectionLeftToRight)) >>)
            => last.dim = Dim(50, 20)
       /\ (last.lineSpacing = 0
             /\ \E d \in Directions \ {DirectionLeftToRight, DirectionRightToLeft} :
                  last.s.segments = << segment(Hello, StyleOf(d)) >>)
            => last.dim = Dim(20, 50)

\* C11 witness: the run "Hello" under a vertical face has been measured at
\* line spacing 0.
C11_Witness ==
  /\ last.op = "Measure"
  /\ last.lineSpacing = 0
  /\ last.s.segments = << segment(Hello, StyleOf(DirectionTopToBottomAndLeftToRight)) >>
  /\ last.dim = Dim(20, 50)

\* C12: for a style A and texts X and Y, the Concat of the String built from
\* Append(X, A) with the String built from Append(Y, A) measures, at every line
\* spacing, what the String built from Append(XY, A) measures; for X = Y = "a"
\* the two segment sequences differ.
C12_ConcatMeasuresLikeAppend ==
  (last.op = "Measure" /\ last.via = "Concat") =>
    \A A \in Styles, X \in Pieces, Y \in Pieces :
      (last.left = Apply(X, A) /\ last.right = Apply(Y, A)) =>
        /\ last.dim = Measure(Apply(X \o Y, A), last.lineSpacing)
        /\ (X = <<"a">> /\ Y = <<"a">>) =>
             /\ last.s.segments # Apply(X \o Y, A).segments
             /\ PrimaryExtent(last.dim, A.Face.direction) = 20

\* C12 witness: the Concat of "a" and "a" under one vertical style has been
\* measured at line spacing 1.
C12_Witness ==
  /\ last.op = "Measure"
  /\ last.via = "Concat"
  /\ last.lineSpacing = 1
  /\ last.left = Apply(<<"a">>, StyleOf(DirectionTopToBottomAndRightToLeft))
  /\ last.right = Apply(<<"a">>, StyleOf(DirectionTopToBottomAndRightToLeft))
  /\ Len(last.s.segments) = 2

----------------------------------------------------------------------------
(* Properties of text boxes.                                               *)

\* The latest call was a Box or AutoBox whose layout pass ran to its end.
PassDone == last.op \in {"Box", "AutoBox"} /\ ~last.box.pass.panic

\* The indices of the steps of kind ev in the latest layout pass.
Steps(ev) == { i \in DOMAIN last.box.pass.trace : last.box.pass.trace[i].ev = ev }

\* C13: in the left-to-right direction StartLine(primaryLen) sets the cursor X
\* to origin.X for Align = Left, to origin.X + (boxW - primaryLen)/2 for Center
\* and to origin.X + boxW - primaryLen for Right; with origin (0,0), box size
\* (100,20) and primaryLen 40 that is 0, 30 and 60.
C13_StartLineLTR ==
  (PassDone /\ last.s.direction = DirectionLeftToRight) =>
    \A i \in Steps("StartLine") :
      LET e == last.box.pass.trace[i]
          m == last.box.pass.m0
          a == last.box.boxOpts.Align
          example == m.orig = Pt(0, 0) /\ m.boxDim = Dim(100, 20) /\ e.arg = 40
      IN /\ a = Left => e.pos.X = m.orig.X
         /\ a = Center => 2 * (e.pos.X - m.orig.X) = m.boxDim.X - e.arg
         /\ a = Right => e.pos.X = m.orig.X + m.boxDim.X - e.arg
         /\ (example /\ a = Left) => e.pos.X = 0
         /\ (example /\ a = Center) => e.pos.X = 30
         /\ (example /\ a = Right) => e.pos.X = 60

\* C13 witness: a left-to-right line of primaryLen 40 has been started under
\* Align = Center in the box of size (100,20) at (0,0), at X = 30.
C13_Witness ==
  /\ PassDone
  /\ last.s.direction = DirectionLeftToRight
  /\ last.box.boxOpts.Align = Center
  /\ last.box.pass.m0.orig = Pt(0, 0)
  /\ last.box.pass.m0.boxDim = Dim(100, 20)
  /\ \E i \in Steps("StartLine") :
       last.box.pass.trace[i].arg = 40 /\ last.box.pass.trace[i].pos.X = 30

\* C14: with top-to-bottom lines stacked left to right, Align = Center makes
\* the machine's initial X origin.X + boxW/2 - blockW/2; with origin X = 0,
\* box width 100 and a block X extent of 40 that is 30.
C14_VerticalLTRCenter ==
  (PassDone /\ last.s.direction = DirectionTopToBottomAndLeftToRight
            /\ last.box.boxOpts.Align = Center) =>
    LET m == last.box.pass.m0
    IN /\ 2 * (m.pos.X - m.orig.X) = m.boxDim.X - m.txtDim.X
       /\ last.box.pass.trace[1] = Event("init", 0, 0, 0, m.pos)
       /\ (m.orig.X = 0 /\ m.boxDim.X = 100 /\ m.txtDim.X = 40) => m.pos.X = 30

\* C14 witness: a block of X extent 40, two lines stacked left to right, has
\* been centred in a box of width 100 at X = 0.
C14_Witness ==
  /\ PassDone
  /\ last.s.direction = DirectionTopToBottomAndLeftToRight
  /\ last.box.boxOpts.Align = Center
  /\ last.box.pass.m0.orig.X = 0
  /\ last.box.pass.m0.boxDim.X = 100
  /\ last.box.pass.m0.txtDim.X = 40
  /\ Len(Lines(last.s)) = 2
  /\ last.box.pass.m0.pos.X = 30

\* C15 as stated: with top-to-bottom lines stacked right to left, origin X = 0,
\* box width 100 and a block X extent of 40, Align = Center makes the
\* machine's initial X 80.
C15_VerticalRTLCenterIs80 ==
  (PassDone /\ last.s.direction = DirectionTopToBottomAndRightToLeft
            /\ last.box.boxOpts.Align = Center
            /\ last.box.pass.m0.orig.X = 0
            /\ last.box.pass.m0.boxDim.X = 100
            /\ last.box.pass.m0.txtDim.X = 40) =>
    last.box.pass.m0.pos.X = 80

\* C15 amended: with top-to-bottom lines stacked right to left, Align = Center
\* makes the machine's initial X origin.X + boxW - (boxW - blockW)/2; with
\* origin X = 0, box width 100 and a block X extent of 40 that is 70.
C15_VerticalRTLCenterIs70 ==
  (PassDone /\ last.s.direction = DirectionTopToBottomAndRightToLeft
            /\ last.box.boxOpts.Align = Center) =>
    LET m == last.box.pass.m0
    IN /\ 2 * (m.orig.X + m.boxDim.X - m.pos.X) = m.boxDim.X - m.txtDim.X
       /\ last.box.pass.trace[1] = Event("init", 0, 0, 0, m.pos)
       /\ (m.orig.X = 0 /\ m.boxDim.X = 100 /\ m.txtDim.X = 40) => m.pos.X = 70

\* C15 witness: a block of X extent 40, stacked right to left, has been centred
\* in a box of width 100 at X = 0.
C15_Witness ==
  /\ PassDone
  /\ last.s.direction = DirectionTopToBottomAndRightToLeft
  /\ last.box.boxOpts.Align = Center
  /\ last.box.pass.m0.orig.X = 0
  /\ last.box.pass.m0.boxDim.X = 100
  /\ last.box.pass.m0.txtDim.X = 40
  /\ last.box.pass.m0.pos.X = 70

\* The layout pass of the latest Box call had boxOpts been o.
BoxPassWith(o) == Box(DstBounds, last.s, last.box.bounds, o)

\* Passes p and q went through the same steps with the same lengths.
SameSteps(p, q) ==
  /\ p.panic = q.panic
  /\ Len(p.trace) = Len(q.trace)
  /\ \A i \in DOMAIN p.trace :
       /\ p.trace[i].ev = q.trace[i].ev
       /\ p.trace[i].line = q.trace[i].line
       /\ p.trace[i].seg = q.trace[i].seg
       /\ p.trace[i].arg = q.trace[i].arg

\* C16: Align governs X only and VertAlign governs Y only.  A pass that differs
\* from the latest one only in Align goes through the same steps with the same
\* Y after every step, every draw included; in the horizontal directions its
\* init leaves the same cursor (Align acts at StartLine only), in the vertical
\* directions its X differs by the same amount at every step (Align acts on
\* the initial X only).  Symmetrically for VertAlign, with X and Y exchanged
\* and the two pairs of directions exchanged.
C16_AlignmentAxes ==
  (last.op = "Box" /\ PassDone) =>
    LET p == last.box.pass
        o == last.box.boxOpts
        h == IsHorizontal(last.s.direction)
    IN /\ \A a \in Alignments :
            LET q == BoxPassWith([o EXCEPT !.Align = a])
            IN /\ SameSteps(p, q)
               /\ \A i \in DOMAIN p.trace : q.trace[i].pos.Y = p.trace[i].pos.Y
               /\ h => q.m0.pos = p.m0.pos
               /\ ~h => \A i \in DOMAIN p.trace :
                          q.trace[i].pos.X - p.trace[i].pos.X = q.m0.pos.X - p.m0.pos.X
       /\ \A v \in VertAlignments :
            LET q == BoxPassWith([o EXCEPT !.VertAlign = v])
            IN /\ SameSteps(p, q)
               /\ \A i \in DOMAIN p.trace : q.trace[i].pos.X = p.trace[i].pos.X
               /\ ~h => q.m0.pos = p.m0.pos
               /\ h => \A i \in DOMAIN p.trace :
                         q.trace[i].pos.Y - p.trace[i].pos.Y = q.m0.pos.Y - p.m0.pos.Y

\* C16 witness: a right-to-left String of two lines has been drawn centred on
\* both axes, at positions whose X another Align and whose Y another VertAlign
\* would have changed.
C16_Witness ==
  /\ last.op = "Box"
  /\ PassDone
  /\ last.s.direction = DirectionRightToLeft
  /\ last.box.boxOpts.Align = Center
  /\ last.box.boxOpts.VertAlign = Middle
  /\ \E i \in Steps("Draw") :
       /\ last.box.pass.trace[i].line = 2
       /\ BoxPassWith([last.box.boxOpts EXCEPT !.Align = Left]).trace[i].pos.X
            # last.box.pass.trace[i].pos.X
       /\ BoxPassWith([last.box.boxOpts EXCEPT !.VertAlign = Bottom]).trace[i].pos.Y
            # last.box.pass.trace[i].pos.Y

\* C17 as stated: for every bounds handed to Box, the layout machine is
\* constructed with origin = the origin of bounds and with box extent = the
\* width and height of bounds.
C17_BoxUsesBoundsExactly ==
  last.op = "Box" =>
    /\ last.box.pass.m0.orig = last.box.bounds.Min
    /\ last.box.pass.m0.boxDim = AABBDim(last.box.bounds)

\* C18 as stated: AutoBox measures the String at line spacing 0 to obtain dim,
\* lays it out in the rectangle of size dim whose origin is pos - anchor * dim
\* (anchor (0,0): the top-left corner is pos; (1,1): the bottom-right corner is
\* pos; (0.5,0.5): the centre is pos), with Auto/Auto alignment and line
\* spacing 0.
C18_AutoBoxTightRectangle ==
  last.op = "AutoBox" =>
    LET m      == last.box.pass.m0
        dim    == Measure(last.s, 0)
        pos    == last.box.pos
        anchor == last.box.anchor
    IN /\ m.txtDim = dim
       /\ m.boxDim = dim
       /\ 2 * (pos.X - m.orig.X) = anchor.X * dim.X
       /\ 2 * (pos.Y - m.orig.Y) = anchor.Y * dim.Y
       /\ anchor = Dim(0, 0) => m.orig = pos
       /\ anchor = Dim(2, 2) => Pt(m.orig.X + dim.X, m.orig.Y + dim.Y) = pos
       /\ m.align = AutoAlign /\ m.valign = AutoVertAlign
       /\ last.box.pass = drawString(AABBImage(DimAABB(dim, m.orig)), last.s,
                                     m.orig, dim, ZeroBoxOptions)

\* The positions of the draws of a trace, in order.
RECURSIVE DrawPositionsOf(_)
DrawPositionsOf(trace) ==
  IF trace = <<>> THEN <<>>
  ELSE IF Head(trace).ev = "Draw"
         THEN << Head(trace).pos >> \o DrawPositionsOf(Tail(trace))
         ELSE DrawPositionsOf(Tail(trace))

C20_LayoutNeverFails ==
  last.op \in {"Box", "AutoBox"} =>
    LET p == last.box.pass
        n == Len(Lines(last.s))
    IN /\ ~p.panic
       /\ status = "running"
       /\ p.trace[1].ev = "init"
       /\ Cardinality(Steps("StartLine")) = n
       /\ Cardinality(Steps("EndLine")) = n
       /\ p.trace[Len(p.trace)] = Event("EndLine", n, 0, p.trace[Len(p.trace)].arg, p.m.pos)
       /\ p.m0.txtDim = Measure(last.s, last.lineSpacing)
       /\ p.m0.txtDim.X \in Nat /\ p.m0.txtDim.Y \in Nat

\* C20 witness: a String of lines stacked right to left has been laid out to
\* its end, centred on both axes, in a box whose Max lies before its Min.
C20_Witness ==
  /\ last.op = "Box"
  /\ ~last.box.pass.panic
  /\ last.s.direction = DirectionTopToBottomAndRightToLeft
  /\ last.box.boxOpts.Align = Center
  /\ last.box.boxOpts.VertAlign = Middle
  /\ last.box.bounds.Max.X < last.box.bounds.Min.X
  /\ last.box.bounds.Max.Y < last.box.bounds.Min.Y
  /\ Cardinality(Steps("EndLine")) = 3

\* The segment indices of the steps of kind ev of a trace, in order.
RECURSIVE StepSegsOf(_, _)
StepSegsOf(trace, ev) ==
  IF trace = <<>> THEN <<>>
  ELSE IF Head(trace).ev = ev
         THEN << Head(trace).seg >> \o StepSegsOf(Tail(trace), ev)
         ELSE StepSegsOf(Tail(trace), ev)

\* The indices from i on of the segments that are no newline markers.
RECURSIVE NonMarkersFrom(_, _)
NonMarkersFrom(segments, i) ==
  IF i > Len(segments) THEN <<>>
  ELSE IF IsMarker(segments[i])
         THEN NonMarkersFrom(segments, i + 1)
         ELSE << i >> \o NonMarkersFrom(segments, i + 1)

\* The sum of the advances of the segments of a line that are no markers.
RECURSIVE ContentAdvance(_)
ContentAdvance(segments) ==
  IF segments = <<>> THEN 0
  ELSE (IF IsMarker(Head(segments)) THEN 0
        ELSE Advance(Head(segments).text, Head(segments).style.Face))
       + ContentAdvance(Tail(segments))

\* C21: during a layout pass newline markers never reach the draw primitive
\* and never move the cursor: the draws are exactly the segments that are no
\* markers, once each and in segment order, each followed at once by the one
\* MoveInLine of that segment, the pass has no other step than init and one
\* StartLine and EndLine per line, and the primaryLen of every line is the sum
\* of the advances of its segments that are no markers.
C21_MarkersNeverDrawn ==
  PassDone =>
    LET trace == last.box.pass.trace
        segs  == last.s.segments
        lines == Lines(last.s)
        content == NonMarkersFrom(segs, 1)
    IN /\ StepSegsOf(trace, "Draw") = content
       /\ StepSegsOf(trace, "MoveInLine") = content
       /\ \A i \in Steps("Draw") :
            /\ ~IsMarker(segs[trace[i].seg])
            /\ trace[i + 1].ev = "MoveInLine"
            /\ trace[i + 1].seg = trace[i].seg
            /\ trace[i].pos = trace[i - 1].pos
       /\ Len(trace) = 1 + 2 * Len(lines) + 2 * Len(content)
       /\ \A i \in Steps("StartLine") :
            trace[i].arg = ContentAdvance(lines[trace[i].line])

\* C21 witness: a String of two lines whose first line holds two segments and
\* a newline marker has been laid out with three draws.
C21_Witness ==
  /\ PassDone
  /\ Len(last.s.segments) = 4
  /\ IsMarker(last.s.segments[3])
  /\ StepSegsOf(last.box.pass.trace, "Draw") = <<1, 2, 4>>

\* The block-level alignment of the latest layout pass, made by init: the
\* coordinate it governs (Y by VertAlign for horizontal lines, X by Align for
\* stacked vertical lines), with the origin, the box extent and the block
\* extent along that axis; far tells that the cursor is the far edge of the
\* content, as it is where lines are stacked right to left.
BlockAlign ==
  LET m == last.box.pass.m0
  IN IF IsHorizontal(m.dir)
       THEN [coord |-> m.pos.Y, origin |-> m.orig.Y, box |-> m.boxDim.Y, len |-> m.txtDim.Y,
             start |-> m.valign = Top, center |-> m.valign = Middle, end |-> m.valign = Bottom,
             far |-> FALSE, block |-> TRUE]
       ELSE [coord |-> m.pos.X, origin |-> m.orig.X, box |-> m.boxDim.X, len |-> m.txtDim.X,
             start |-> m.align = Left, center |-> m.align = Center, end |-> m.align = Right,
             far |-> m.dir = DirectionTopToBottomAndRightToLeft, block |-> TRUE]

\* The per-line alignment made by the StartLine at step i of the latest layout
\* pass: X by Align for horizontal lines, Y by VertAlign for vertical lines;
\* the cursor is the far edge of the content in right-to-left lines.
LineAlign(i) ==
  LET m == last.box.pass.m0
      e == last.box.pass.trace[i]
  IN IF IsHorizontal(m.dir)
       THEN [coord |-> e.pos.X, origin |-> m.orig.X, box |-> m.boxDim.X, len |-> e.arg,
             start |-> m.align = Left, center |-> m.align = Center, end |-> m.align = Right,
             far |-> m.dir = DirectionRightToLeft, block |-> FALSE]
       ELSE [coord |-> e.pos.Y, origin |-> m.orig.Y, box |-> m.boxDim.Y, len |-> e.arg,
             start |-> m.valign = Top, center |-> m.valign = Middle, end |-> m.valign = Bottom,
             far |-> FALSE, block |-> FALSE]

\* The alignments the latest layout pass made.
AlignmentsMade == {BlockAlign} \cup { LineAlign(i) : i \in Steps("StartLine") }

\* C29 as stated: in every direction Start (Left, Top) sets the governed
\* coordinate to origin and End (Right, Bottom) to origin + boxExtent -
\* relevantLen, relevantLen being the line's primaryLen in StartLine and the
\* block's extent in init.
C29_StartEndEverywhere ==
  PassDone =>
    \A a \in AlignmentsMade :
      /\ a.start => a.coord = a.origin
      /\ a.end => a.coord = a.origin + a.box - a.len

\* C29, amended: Start sets the governed coordinate to origin and End to origin
\* + boxExtent - relevantLen where the cursor is the near edge of the content
\* (lines in HorizontalLTR and both vertical directions, blocks in both
\* horizontal directions and VerticalLTRStack); where the cursor is the far edge
\* (lines in HorizontalRTL, the block in VerticalRTLStack) Start sets it to
\* origin + relevantLen and End to origin + boxExtent.
C29_StartEndByEdge ==
  PassDone =>
    \A a \in AlignmentsMade :
      /\ (a.start /\ ~a.far) => a.coord = a.origin
      /\ (a.end /\ ~a.far) => a.coord = a.origin + a.box - a.len
      /\ (a.start /\ a.far) => a.coord = a.origin + a.len
      /\ (a.end /\ a.far) => a.coord = a.origin + a.box

\* A right-to-left line of primaryLen 20 has been started under Align = Left in
\* a box at X = 0, at X = 20.
C29_Witness ==
  /\ PassDone
  /\ last.s.direction = DirectionRightToLeft
  /\ last.box.boxOpts.Align = Left
  /\ last.box.pass.m0.orig.X = 0
  /\ \E i \in Steps("StartLine") :
       last.box.pass.trace[i].arg = 20 /\ last.box.pass.trace[i].pos.X = 20

\* C30 as stated: Center sets the governed coordinate to origin + (boxExtent -
\* relevantLen)/2 in every case except exactly one, the block-level Center of
\* VerticalRTLStack, where it is origin + boxExtent - (boxExtent - blockLen)/2.
C30_CenterOneException ==
  PassDone =>
    \A a \in AlignmentsMade :
      a.center =>
        IF a.block /\ last.box.pass.m0.dir = DirectionTopToBottomAndRightToLeft
          THEN 2 * (a.origin + a.box - a.coord) = a.box - a.len
          ELSE 2 * (a.coord - a.origin) = a.box - a.len

\* C30, amended: Center sets the governed coordinate to origin + (boxExtent -
\* relevantLen)/2 except in two cases, the per-line Center of HorizontalRTL and
\* the block-level Center of VerticalRTLStack, where it is origin + boxExtent -
\* (boxExtent - relevantLen)/2.
C30_CenterTwoExceptions ==
  PassDone =>
    \A a \in AlignmentsMade :
      a.center =>
        IF a.far
          THEN 2 * (a.origin + a.box - a.coord) = a.box - a.len
          ELSE 2 * (a.coord - a.origin) = a.box - a.len

\* A right-to-left line of primaryLen 20 has been started under Align = Center
\* in a box of width 100 at X = 0, at X = 60.
C30_Witness ==
  /\ PassDone
  /\ last.s.direction = DirectionRightToLeft
  /\ last.box.boxOpts.Align = Center
  /\ last.box.pass.m0.orig.X = 0
  /\ last.box.pass.m0.boxDim.X = 100
  /\ \E i \in Steps("StartLine") :
       last.box.pass.trace[i].arg = 20 /\ last.box.pass.trace[i].pos.X = 60

\* The Align whose place AutoAlign takes in direction dir: Left where the flow
\* along X begins at the origin-side edge, Right where it begins at the far
\* edge.
NaturalAlign(dir) ==
  IF dir \in {DirectionRightToLeft, DirectionTopToBottomAndRightToLeft} THEN Right ELSE Left

\* Passes p and q went through the same steps with the same lengths and left
\* the same cursor after each of them, init included.
SameCursors(p, q) ==
  /\ p.panic = q.panic
  /\ p.trace = q.trace
  /\ p.m0.pos = q.m0.pos
  /\ p.m.pos = q.m.pos

\* C31: a layout pass under AutoAlign is, step by step and cursor by cursor,
\* the pass under Left in HorizontalLTR and VerticalLTRStack and the pass under
\* Right in HorizontalRTL and VerticalRTLStack; a pass under AutoVertAlign is the
\* pass under Top in all four directions.
C31_AutoIsNaturalStart ==
  last.op = "Box" =>
    LET o == last.box.boxOpts
    IN /\ SameCursors(BoxPassWith([o EXCEPT !.Align = AutoAlign]),
                       BoxPassWith([o EXCEPT !.Align = NaturalAlign(last.s.direction)]))
       /\ SameCursors(BoxPassWith([o EXCEPT !.VertAlign = AutoVertAlign]),
                       BoxPassWith([o EXCEPT !.VertAlign = Top]))

\* Two lines stacked right to left have been laid out under AutoAlign and
\* AutoVertAlign in a box wider than the block, at cursors that Left would have
\* placed elsewhere.
C31_Witness ==
  /\ last.op = "Box"
  /\ PassDone
  /\ last.s.direction = DirectionTopToBottomAndRightToLeft
  /\ last.box.boxOpts.Align = AutoAlign
  /\ last.box.boxOpts.VertAlign = AutoVertAlign
  /\ Len(Lines(last.s)) = 2
  /\ Steps("Draw") # {}
  /\ BoxPassWith([last.box.boxOpts EXCEPT !.Align = Left]).m0.pos # last.box.pass.m0.pos
  /\ SameCursors(last.box.pass, BoxPassWith([last.box.boxOpts EXCEPT !.Align = Right]))

\* C32: MoveInLine(a) changes only the primary coordinate, by +a in
\* HorizontalLTR (X) and both vertical directions (Y) and by -a in
\* HorizontalRTL (X); EndLine(s) changes only the secondary coordinate, by +s in
\* both horizontal directions (Y) and VerticalLTRStack (X) and by -s in
\* VerticalRTLStack (X).
C32_MoveAndEndLineFrames ==
  PassDone =>
    LET t   == last.box.pass.trace
        dir == last.s.direction
    IN /\ \A i \in Steps("MoveInLine") :
            LET before == t[i - 1].pos
                after  == t[i].pos
                a      == t[i].arg
            IN CASE dir = DirectionLeftToRight ->
                      after = [before EXCEPT !.X = before.X + a]
                 [] dir = DirectionRightToLeft ->
                      after = [before EXCEPT !.X = before.X - a]
                 [] OTHER ->
                      after = [before EXCEPT !.Y = before.Y + a]
       /\ \A i \in Steps("EndLine") :
            LET before == t[i - 1].pos
                after  == t[i].pos
                a      == t[i].arg
            IN CASE IsHorizontal(dir) ->
                      after = [before EXCEPT !.Y = before.Y + a]
                 [] dir = DirectionTopToBottomAndLeftToRight ->
                      after = [before EXCEPT !.X = before.X + a]
                 [] OTHER ->
                      after = [before EXCEPT !.X = before.X - a]

\* A right-to-left line has been drawn: a MoveInLine by 10 took X from 80 to 70
\* and the EndLine by 20 took Y from 0 to 20.
C32_Witness ==
  /\ PassDone
  /\ last.s.direction = DirectionRightToLeft
  /\ \E i \in Steps("MoveInLine") :
       /\ last.box.pass.trace[i].arg = 10
       /\ last.box.pass.trace[i - 1].pos = Pt(80, 0)
       /\ last.box.pass.trace[i].pos = Pt(70, 0)
  /\ \E i \in Steps("EndLine") :
       /\ last.box.pass.trace[i].arg = 20
       /\ last.box.pass.trace[i - 1].pos.Y = 0
       /\ last.box.pass.trace[i].pos.Y = 20

\* A step without its cursor.
Step(ev, line, seg, arg) == [ev |-> ev, line |-> line, seg |-> seg, arg |-> arg]

\* The steps C33 prescribes for segments[i..] of line number line, base
\* segments preceding the line: for each non-marker segment a draw, then
\* MoveInLine by its advance.
RECURSIVE SegmentSteps(_, _, _, _)
SegmentSteps(segments, i, line, base) ==
  IF i > Len(segments) THEN <<>>
  ELSE ( IF IsMarker(segments[i]) THEN <<>>
         ELSE << Step("Draw", line, base + i, 0),
                 Step("MoveInLine", line, base + i,
                      Advance(segments[i].text, segments[i].style.Face)) >> )
       \o SegmentSteps(segments, i + 1, line, base)

\* The steps C33 prescribes for lines[k..]: StartLine with the line's
\* primaryLen, the steps of its segments, EndLine with its secondaryLen.
RECURSIVE LineSteps(_, _, _, _, _)
LineSteps(lines, k, base, direction, lineSpacing) ==
  IF k > Len(lines) THEN <<>>
  ELSE LET ml == measureLine(lines[k], direction, lineSpacing)
       IN << Step("StartLine", k, 0, ml.priLen) >>
            \o SegmentSteps(lines[k], 1, k, base)
            \o << Step("EndLine", k, 0, ml.secLen) >>
            \o LineSteps(lines, k + 1, base + Len(lines[k]), direction, lineSpacing)

\* The line spacing of the latest layout pass: AutoBox passes the zero options.
PassLineSpacing == IF last.op = "Box" THEN last.box.boxOpts.LineSpacing ELSE 0

\* C33: a layout pass is init once, then for each line that lines() yields
\* StartLine(primaryLen of the line) once, for each non-marker segment one draw
\* at the current cursor followed by one MoveInLine(advance of the segment), and
\* EndLine(secondaryLen of the line) once; nothing else, in this order.
C33_StrictOrder ==
  PassDone =>
    LET t == last.box.pass.trace
    IN /\ [i \in DOMAIN t |-> Step(t[i].ev, t[i].line, t[i].seg, t[i].arg)]
            = << Step("init", 0, 0, 0) >>
                \o LineSteps(Lines(last.s), 1, 0, last.s.direction, PassLineSpacing)
       /\ t[1].pos = last.box.pass.m0.pos
       /\ \A i \in Steps("Draw") : t[i].pos = t[i - 1].pos

\* A String of two lines, the first of two segments and a marker, has been laid
\* out in eleven steps.
C33_Witness ==
  /\ PassDone
  /\ Len(Lines(last.s)) = 2
  /\ Len(Lines(last.s)[1]) = 3
  /\ \E i \in DOMAIN Lines(last.s)[1] : IsMarker(Lines(last.s)[1][i])
  /\ Len(last.box.pass.trace) = 11

\* The coordinate of a point along the primary axis of the latest layout pass
\* (X for horizontal lines, Y for vertical ones) and along the secondary axis.
Pri(pos) == IF IsHorizontal(last.box.pass.m0.dir) THEN pos.X ELSE pos.Y

Sec(pos) == IF IsHorizontal(last.box.pass.m0.dir) THEN pos.Y ELSE pos.X

\* The EndLine step of the line that the StartLine at step i starts.
EndOf(i) ==
  CHOOSE e \in Steps("EndLine") :
    last.box.pass.trace[e].line = last.box.pass.trace[i].line

\* The interval of the primary axis that the cursor sweeps from the StartLine
\* at step i to the last MoveInLine of its line.
Swept(i) ==
  LET t == last.box.pass.trace
      a == Pri(t[i].pos)
      b == Pri(t[EndOf(i) - 1].pos)
  IN [lo |-> IF a <= b THEN a ELSE b, hi |-> IF a <= b THEN b ELSE a]

\* C35: in all four directions, for a line of primaryLen p (0 <= p <= B) in a
\* box of primary extent B at origin o, the cursor stays from StartLine to the
\* line's last MoveInLine in an interval of length p, which is [o, o + p] under
\* Start (Left, Top), [o + B - p, o + B] under End (Right, Bottom) and has the
\* margin (B - p) / 2 on either side under Center (Center, Middle).
C35_SweptIntervalByAlignment ==
  PassDone =>
    \A i \in Steps("StartLine") :
      LET t == last.box.pass.trace
          a == LineAlign(i)
          w == Swept(i)
      IN (0 <= a.len /\ a.len <= a.box) =>
           /\ EndOf(i) > i
           /\ \A j \in i..(EndOf(i) - 1) :
                w.lo <= Pri(t[j].pos) /\ Pri(t[j].pos) <= w.hi
           /\ w.hi - w.lo = a.len
           /\ a.start => w = [lo |-> a.origin, hi |-> a.origin + a.len]
           /\ a.end => w = [lo |-> a.origin + a.box - a.len, hi |-> a.origin + a.box]
           /\ a.center => /\ 2 * (w.lo - a.origin) = a.box - a.len
                          /\ 2 * (a.origin + a.box - w.hi) = a.box - a.len

\* C35 witness: a right-to-left line of two segments and positive primaryLen
\* shorter than the box was laid out under Align = Center, in a box whose
\* origin is not 0, leaving a positive margin on either side.
C35_Witness ==
  /\ PassDone
  /\ last.box.pass.m0.dir = DirectionRightToLeft
  /\ last.box.pass.m0.align = Center
  /\ last.box.pass.m0.orig.X # 0
  /\ \E i \in Steps("StartLine") :
       /\ LineAlign(i).len > 0
       /\ LineAlign(i).len < LineAlign(i).box
       /\ EndOf(i) - i >= 5
       /\ Swept(i).lo > LineAlign(i).origin
       /\ Swept(i).hi = Pri(last.box.pass.trace[i].pos)
       /\ Swept(i).hi < LineAlign(i).origin + LineAlign(i).box

\* The primary coordinate at which a line of primaryLen p starts in the latest
\* layout pass, from the machine's origin, box extent and alignment alone: the
\* near edge of the aligned content, the far edge in right-to-left lines.
LineStart(p) ==
  LET m == last.box.pass.m0
  IN CASE m.dir = DirectionLeftToRight ->
            ( CASE m.align = Center -> m.orig.X + ((m.boxDim.X - p) \div 2)
                [] m.align = Right -> m.orig.X + m.boxDim.X - p
                [] OTHER -> m.orig.X )
       [] m.dir = DirectionRightToLeft ->
            ( CASE m.align = Left -> m.orig.X + p
                [] m.align = Center -> m.orig.X + m.boxDim.X - ((m.boxDim.X - p) \div 2)
                [] OTHER -> m.orig.X + m.boxDim.X )
       [] OTHER ->
            ( CASE m.valign = Middle -> m.orig.Y + ((m.boxDim.Y - p) \div 2)
                [] m.valign = Bottom -> m.orig.Y + m.boxDim.Y - p
                [] OTHER -> m.orig.Y )

\* The closed form of the position at which segment i of line k of the latest
\* pass is drawn.
ClosedForm(k, i) ==
  LET m     == last.box.pass.m0
      lines == Lines(last.s)
      ml(j) == measureLine(lines[j], last.s.direction, PassLineSpacing)
      before == SumTo([ j \in 1..Len(lines[k]) |->
                          IF IsMarker(lines[k][j]) THEN 0
                          ELSE Advance(lines[k][j].text, lines[k][j].style.Face) ],
                      i - 1)
      above == SumTo([ j \in 1..Len(lines) |-> ml(j).secLen ], k - 1)
      pri == IF m.dir = DirectionRightToLeft
               THEN LineStart(ml(k).priLen) - before
               ELSE LineStart(ml(k).priLen) + before
      sec == IF m.dir = DirectionTopToBottomAndRightToLeft
               THEN Sec(m.pos) - above
               ELSE Sec(m.pos) + above
  IN IF IsHorizontal(m.dir) THEN Pt(pri, sec) ELSE Pt(sec, pri)

\* The number of segments of the String that precede line k.
SegmentsBefore(k) == SumTo([ j \in 1..Len(Lines(last.s)) |-> Len(Lines(last.s)[j]) ], k - 1)

\* C36: the i-th segment of line k that is no marker is drawn once, with the
\* primary coordinate lineStart_k plus (minus in HorizontalRTL) the advances of
\* the earlier segments of line k that are no markers and the secondary
\* coordinate c0 plus (minus in VerticalRTLStack) the secondaryLen of the lines
\* before k; lineStart_k is determined by the primaryLen of line k and c0 is
\* the coordinate init set, so that no earlier line moves the start of a later
\* one.
C36_DrawClosedForm ==
  PassDone =>
    LET t     == last.box.pass.trace
        lines == Lines(last.s)
    IN /\ \A k \in DOMAIN lines : \A i \in DOMAIN lines[k] :
            LET draws == { d \in Steps("Draw") :
                             t[d].line = k /\ t[d].seg = SegmentsBefore(k) + i }
            IN IF IsMarker(lines[k][i]) THEN draws = {}
               ELSE /\ Cardinality(draws) = 1
                    /\ \A d \in draws : t[d].pos = ClosedForm(k, i)
       /\ \A d \in Steps("Draw") :
            /\ t[d].line \in DOMAIN lines
            /\ t[d].seg - SegmentsBefore(t[d].line) \in DOMAIN lines[t[d].line]

\* C36 witness: of a String stacked right to left the second segment of the
\* first line was drawn at a primary coordinate beyond the line's start, and
\* the first segment of the second line at the start of its line and at a
\* secondary coordinate below the one init set.
C36_Witness ==
  /\ PassDone
  /\ last.box.pass.m0.dir = DirectionTopToBottomAndRightToLeft
  /\ last.box.pass.m0.valign = Middle
  /\ Len(Lines(last.s)) = 2
  /\ \E d, e \in Steps("Draw") :
       LET t  == last.box.pass.trace
           ml(k) == measureLine(Lines(last.s)[k], last.s.direction, PassLineSpacing)
       IN /\ t[d].line = 1 /\ t[d].seg = 2
          /\ t[d].pos = ClosedForm(1, 2)
          /\ t[d].pos.Y > LineStart(ml(1).priLen)
          /\ t[d].pos.X = last.box.pass.m0.pos.X
          /\ t[e].line = 2 /\ t[e].seg = SegmentsBefore(2) + 1
          /\ t[e].pos = ClosedForm(2, 1)
          /\ t[e].pos.Y = LineStart(ml(2).priLen)
          /\ t[e].pos.X < last.box.pass.m0.pos.X
          /\ LineStart(ml(1).priLen) # LineStart(ml(2).priLen)

\* The precondition of C37 on the latest layout pass: the box dimensions the
\* machine was built with are not negative, the primaryLen of every line is at
\* most the primary extent of the box, and the block dimensions the machine
\* was built with are the measured block, whose secondary extent, the sum of
\* the lines' secondaryLen, is at most the secondary extent of the box.
BlockFits ==
  LET m     == last.box.pass.m0
      lines == Lines(last.s)
      ml(k) == measureLine(lines[k], last.s.direction, PassLineSpacing)
  IN /\ m.boxDim.X >= 0 /\ m.boxDim.Y >= 0
     /\ \A k \in DOMAIN lines : ml(k).priLen <= PrimaryExtent(m.boxDim, m.dir)
     /\ m.txtDim = Measure(last.s, PassLineSpacing)
     /\ SecondaryExtent(m.txtDim, m.dir)
          = SumTo([ k \in DOMAIN lines |-> ml(k).secLen ], Len(lines))
     /\ SecondaryExtent(m.txtDim, m.dir) <= SecondaryExtent(m.boxDim, m.dir)

\* The cursor is inside the box of the latest layout pass along the primary
\* axis, and along the secondary axis.
PriInBox(pos) ==
  LET m == last.box.pass.m0
  IN /\ Pri(m.orig) <= Pri(pos)
     /\ Pri(pos) <= Pri(m.orig) + PrimaryExtent(m.boxDim, m.dir)

SecInBox(pos) ==
  LET m == last.box.pass.m0
  IN /\ Sec(m.orig) <= Sec(pos)
     /\ Sec(pos) <= Sec(m.orig) + SecondaryExtent(m.boxDim, m.dir)

\* C37 as stated: if the block fits, the cursor is inside the box on both axes
\* at init, at every draw and after every MoveInLine and EndLine.
C37_CursorInsideFromInit ==
  (PassDone /\ BlockFits) =>
    \A i \in Steps("init") \cup Steps("Draw") \cup Steps("MoveInLine") \cup Steps("EndLine") :
      PriInBox(last.box.pass.trace[i].pos) /\ SecInBox(last.box.pass.trace[i].pos)

\* C37, amended: if the block fits, the cursor is inside the box along the
\* secondary axis at init and on both axes after every StartLine, at every
\* draw and after every MoveInLine and EndLine; init leaves the primary
\* coordinate at 0, wherever the box is, until the first StartLine assigns it.
C37_CursorInsideFromStartLine ==
  (PassDone /\ BlockFits) =>
    LET t == last.box.pass.trace
    IN /\ \A i \in Steps("init") : SecInBox(t[i].pos) /\ Pri(t[i].pos) = 0
       /\ \A i \in DOMAIN t \ Steps("init") : PriInBox(t[i].pos) /\ SecInBox(t[i].pos)

\* C37 witness: a block of two lines that fits was laid out right to left
\* under Center and Middle in a box whose origin is not 0 on either axis;
\* init left the primary coordinate outside the box.
C37_Witness ==
  /\ PassDone
  /\ BlockFits
  /\ last.box.pass.m0.dir = DirectionRightToLeft
  /\ last.box.pass.m0.align = Center
  /\ last.box.pass.m0.valign = Middle
  /\ last.box.pass.m0.orig.X > 0
  /\ last.box.pass.m0.orig.Y > 0
  /\ Len(Lines(last.s)) = 2
  /\ Steps("Draw") # {}
  /\ ~PriInBox(last.box.pass.m0.pos)

----------------------------------------------------------------------------
(* Strings and the builder as Go slices (specification SpecMem).           *)
(*                                                                         *)
(* append is followed cell by cell: a write to a cell takes two steps, and *)
(* between them the cell holds Torn, what a reader racing with the write   *)
(* may see.  Concat runs in one step at any moment of an Append, as a call *)
(* of another goroutine does.  An array that no slice refers to any more   *)
(* is collected: its place in heap holds no cell and is allocated again.   *)

\* Most segments the builder holds in specification SpecMem.
MaxCells == 2

\* Most cells beyond the needed ones that a growing append allocates.
MaxSpare == 1

\* The styles and texts handed to Append in specification SpecMem.
MemStyles == { StyleOf(DirectionLeftToRight), StyleOf(DirectionRightToLeft) }

MemTexts == { <<"a">> }

\* The zero segment, which fills a fresh array, and the value a reader may
\* see in a cell that is being written.
ZeroStyle == [Face |-> [FaceOf(DirectionLeftToRight) EXCEPT !.adv = 0], Color |-> "none"]

ZeroSegment == segment(<<>>, ZeroStyle)

Torn == segment(<<"torn">>, ZeroStyle)

\* The cells 1..len of a slice, as a reader of the slice finds them.
Cells(heap, slice) == [ i \in 1..slice.len |-> heap[slice.arr][i] ]

\* The value observed through a String: its segments and its direction.
ViewOf(heap, x) == [segments |-> Cells(heap, x.segments), direction |-> x.direction]

\* A new array of capacity cap whose first cells hold init.
NewArray(init, cap) == [ i \in 1..cap |-> IF i <= Len(init) THEN init[i] ELSE ZeroSegment ]

\* Where the next array is allocated: the first place of heap without cells.
FreeArray(heap) ==
  CHOOSE k \in 1..(Len(heap) + 1) :
    /\ k <= Len(heap) => heap[k] = <<>>
    /\ \A j \in 1..(k - 1) : heap[j] # <<>>

\* heap with array a (of at least one cell) allocated.
Allocate(heap, a) ==
  LET k == FreeArray(heap)
  IN IF k <= Len(heap) THEN [heap EXCEPT ![k] = a] ELSE Append(heap, a)

\* The garbage collector: the arrays that neither the builder, nor the Append
\* in progress, nor a String of the client refers to are freed.
Collect(m) ==
  LET live == { m.bld.s.segments.arr, m.bld.loc.arr }
                \cup { m.strs[k].s.segments.arr : k \in DOMAIN m.strs }
  IN [m EXCEPT !.heap = [ k \in DOMAIN m.heap |-> IF k \in live THEN m.heap[k] ELSE <<>> ]]

\* The first half of append(s, seg) on heap: the slice with room for the new
\* cell (s itself, or a copy in a new array of capacity cap when s is full)
\* and the heap, the new cell being written.
appendWrite(heap, s, cap) ==
  IF s.len < s.cap
    THEN [heap |-> [heap EXCEPT ![s.arr][s.len + 1] = Torn], s |-> s]
    ELSE LET a == NewArray(Append(Cells(heap, s), Torn), cap)
         IN [heap |-> Allocate(heap, a),
             s    |-> [arr |-> FreeArray(heap), len |-> s.len, cap |-> cap]]

\* The second half of append(s, seg): the cell holds seg and s is one longer.
appendCommit(heap, s, seg) ==
  [heap |-> [heap EXCEPT ![s.arr][s.len + 1] = seg], s |-> [s EXCEPT !.len = s.len + 1]]

\* Faulty variant of memReset: the builder keeps its array, emptied.
memReset_KeepsArray(b) ==
  [ZeroMemBuilder EXCEPT !.s.segments = [b.s.segments EXCEPT !.len = 0]]

\* StringBuilder.Reset: s.s = String{}; s.nonZero = false.
memReset(b) == ZeroMemBuilder

\* The start of sb.Append(text, style): the direction is set or compared, then
\* appendSegmentsFromText starts on the builder's slice.
MemAppendStart ==
  /\ mem.bld.pc = "idle"
  /\ \E text \in MemTexts, style \in MemStyles :
       LET b   == mem.bld
           d   == IF ~b.nonZero THEN style.Face.direction ELSE b.s.direction
           new == appendSegmentsFromText(<<>>, text, style)
       IN IF d # style.Face.direction
            THEN mem' = [mem EXCEPT !.bld.pc = "panicked"]
            ELSE /\ b.s.segments.len + Len(new) <= MaxCells
                 /\ mem' = [mem EXCEPT !.bld = [b EXCEPT !.s.direction = d,
                                                         !.nonZero = TRUE,
                                                         !.pc = "append",
                                                         !.loc = b.s.segments,
                                                         !.pend = new]]
  /\ UNCHANGED exceptMem

\* s = append(s, segment{...}), first half.
MemAppendWrite ==
  /\ mem.bld.pc = "append"
  /\ mem.bld.pend # <<>>
  /\ LET s == mem.bld.loc
     IN \E cap \in (s.len + 1)..(s.len + 1 + MaxSpare) :
          /\ (s.len < s.cap => cap = s.len + 1)
          /\ LET r == appendWrite(mem.heap, s, cap)
             IN mem' = Collect([mem EXCEPT !.heap = r.heap, !.bld.loc = r.s,
                                           !.bld.pc = "write"])
  /\ UNCHANGED exceptMem

\* s = append(s, segment{...}), second half.
MemAppendCommit ==
  /\ mem.bld.pc = "write"
  /\ LET r == appendCommit(mem.heap, mem.bld.loc, Head(mem.bld.pend))
     IN mem' = [mem EXCEPT !.heap = r.heap, !.bld.loc = r.s,
                           !.bld.pend = Tail(mem.bld.pend), !.bld.pc = "append"]
  /\ UNCHANGED exceptMem

\* The end of Append: s.s.segments = the slice appendSegmentsFromText returned.
MemAppendEnd ==
  /\ mem.bld.pc = "append"
  /\ mem.bld.pend = <<>>
  /\ mem' = [mem EXCEPT !.bld.s.segments = mem.bld.loc, !.bld.loc = NilSlice,
                        !.bld.pc = "idle"]
  /\ UNCHANGED exceptMem

\* sb.Reset().
MemReset ==
  /\ mem.bld.pc = "idle"
  /\ mem' = Collect([mem EXCEPT !.bld = memReset(mem.bld)])
  /\ UNCHANGED exceptMem

\* s = sb.String(): the first variable of the client is assigned a copy of
\* the builder's String.
MemString ==
  /\ mem.bld.pc = "idle"
  /\ mem' = Collect([mem EXCEPT !.strs[1] =
                       [s |-> mem.bld.s, seen |-> ViewOf(mem.heap, mem.bld.s)]])
  /\ UNCHANGED exceptMem

\* c = x.Concat(y) on two String variables of the client, at any moment; c is
\* the second variable.
MemConcat ==
  /\ mem.bld.pc # "panicked"
  /\ \E i \in DOMAIN mem.strs, j \in DOMAIN mem.strs :
       LET x == mem.strs[i].s
           y == mem.strs[j].s
       IN IF x.direction # y.direction
            THEN mem' = [mem EXCEPT !.bld.pc = "panicked"]
            ELSE LET n == x.segments.len + y.segments.len
                     a == NewArray(Cells(mem.heap, x.segments) \o Cells(mem.heap, y.segments), n)
                     r == [segments |-> [arr |-> IF n = 0 THEN 0 ELSE FreeArray(mem.heap),
                                         len |-> n, cap |-> n],
                           direction |-> x.direction]
                 IN /\ n <= MaxCells
                    /\ mem' = Collect([mem EXCEPT
                                 !.heap = IF n = 0 THEN mem.heap ELSE Allocate(mem.heap, a),
                                 !.strs[2] = [s |-> r,
                                              seen |-> [segments |-> a,
                                                        direction |-> r.direction]]])
  /\ UNCHANGED exceptMem

NextMem ==
  \/ MemAppendStart
  \/ MemAppendWrite
  \/ MemAppendCommit
  \/ MemAppendEnd
  \/ MemReset
  \/ MemString
  \/ MemConcat

SpecMem == Init /\ [][NextMem]_vars

\* C22: a String is immutable once obtained: whatever the builder does after
\* s = sb.String() or s = x.Concat(y) (Append, at every moment of it, and
\* Reset) and whatever Concat is applied to the Strings obtained, a reader of
\* s finds in every state the segments and the direction that were observed
\* when s was obtained, and never a cell that is being written.
C22_StringImmutable ==
  \A k \in DOMAIN mem.strs :
    /\ ViewOf(mem.heap, mem.strs[k].s) = mem.strs[k].seen
    /\ \A i \in 1..mem.strs[k].s.segments.len :
         mem.heap[mem.strs[k].s.segments.arr][i] # Torn

\* C22 witness: an Append is writing a cell of the array that a String
\* obtained earlier, holding a segment, has its segments in, while the other
\* variable holds a Concat of two segments.
C22_Witness ==
  /\ mem.bld.pc = "write"
  /\ mem.strs[1].s.segments.len >= 1
  /\ mem.strs[1].s.segments.arr = mem.bld.loc.arr
  /\ mem.heap[mem.bld.loc.arr][mem.bld.loc.len + 1] = Torn
  /\ mem.strs[2].s.segments.len = 2

----------------------------------------------------------------------------
(* FindSource and RegisterSource (specification SpecReg).                  *)
(*                                                                         *)
(* Every step is one operation on sourceRegistry or on the system font     *)
(* finder; the steps of the goroutines interleave.                         *)

\* Most sources created, by the client and by FindSource from system fonts.
MaxSources == 2

\* The sources created so far.
Sources == 1..reg.born

\* A source is reachable while a variable of the client refers to it, or
\* FindSource is about to return it.  RegisterSource does not use s.src after
\* runtime.AddCleanup, so its call alone keeps no source reachable.
Reachable(r, id) ==
  id \in r.held \/ \E p \in Procs : r.procs[p].pc = "register" /\ r.procs[p].src = id

\* wp.Value(): the source, nil once the garbage collector found it unreachable.
Value(r, wp) == IF wp \in r.collected THEN FontNone ELSE wp

\* sourceRegistry.Load(name) followed by Value(): the source found, or nil when
\* there is no entry or its source is gone.
LoadValue(r, name) == IF r.map[name] = FontNone THEN FontNone ELSE Value(r, r.map[name])

\* Faulty variant of cleanup: the entry is deleted whatever it holds.
cleanup_Delete(r, name, wp) == [r EXCEPT !.map[name] = FontNone]

\* The cleanup of RegisterSource: sourceRegistry.CompareAndDelete(e.name, e.wp).
cleanup(r, name, wp) ==
  IF r.map[name] = wp THEN [r EXCEPT !.map[name] = FontNone] ELSE r

\* Goroutine p returns (src, ok) from FindSource; a source returned is kept by
\* the client.
Return(r, p, src, ok) ==
  LET q == r.procs[p]
  IN [r EXCEPT !.procs[p] = IdleProc,
               !.ret = [returned |-> TRUE, src |-> src, ok |-> ok, sys |-> q.sys,
                        pre |-> q.pre],
               !.held = IF ok THEN r.held \cup {src} ELSE r.held]

\* The expectation of every FindSource(name) in progress is dropped.
Unsettle(r, name) ==
  [r EXCEPT !.procs = [p \in Procs |->
      IF r.procs[p].name = name THEN [r.procs[p] EXCEPT !.pre = FontNone] ELSE r.procs[p]]]

\* The client creates a source: NewSource, NewSourceFromBytes, NewSourceFromFile.
NewSource ==
  /\ reg.born < MaxSources
  /\ reg' = [reg EXCEPT !.born = reg.born + 1, !.held = reg.held \cup {reg.born + 1}]
  /\ UNCHANGED exceptReg

\* The client's last variable referring to a source goes away.
DropSource ==
  /\ \E id \in reg.held :
       reg' = [reg EXCEPT !.held = reg.held \ {id},
                          !.procs = [p \in Procs |->
                             IF reg.procs[p].pre = id
                               THEN [reg.procs[p] EXCEPT !.pre = FontNone]
                               ELSE reg.procs[p]]]
  /\ UNCHANGED exceptReg

\* RegisterSource(name, s) by goroutine p, up to runtime.AddCleanup.
RegisterStart ==
  /\ \E p \in Registrars, name \in RegNames, s \in reg.held :
       /\ reg.procs[p].pc = "idle"
       /\ LET r == Unsettle(reg, name)
          IN reg' = [r EXCEPT !.procs[p] = [r.procs[p] EXCEPT !.pc = "store",
                                                             !.name = name, !.src = s],
                              !.cleanups = r.cleanups \cup {<<name, s>>}]
  /\ UNCHANGED exceptReg

\* RegisterSource: sourceRegistry.Store(name, wp), and the return.
RegisterStore ==
  /\ \E p \in Procs :
       /\ reg.procs[p].pc = "store"
       /\ LET q == reg.procs[p]
          IN reg' = [reg EXCEPT !.map[q.name] = q.src, !.latest[q.name] = q.src,
                                !.procs[p] = IdleProc]
  /\ UNCHANGED exceptReg

\* FindSource(name) by goroutine p: the first look into sourceRegistry.  pre is
\* the source the client's last completed RegisterSource(name, s) registered,
\* if the client still refers to s and no RegisterSource(name, ...) of the
\* client is in progress.
FindStart ==
  /\ \E p \in Finders, name \in FontNames :
       /\ reg.procs[p].pc = "idle"
       /\ LET s   == LoadValue(reg, name)
              pre == IF /\ reg.latest[name] \in reg.held
                        /\ \A o \in Procs : ~(reg.procs[o].pc = "store" /\ reg.procs[o].name = name)
                       THEN reg.latest[name] ELSE FontNone
              r   == [reg EXCEPT !.procs[p] = [IdleProc EXCEPT !.pc = "match", !.name = name,
                                                              !.pre = pre]]
          IN reg' = IF s # FontNone THEN Return(r, p, s, TRUE) ELSE r
  /\ UNCHANGED exceptReg

\* FindSource: sysFonts.finder.Match(name) finds no font, or one of the system
\* fonts.
FindMatch ==
  /\ \E p \in Procs :
       /\ reg.procs[p].pc = "match"
       /\ LET r == [reg EXCEPT !.procs[p].sys = TRUE]
          IN \/ reg' = Return(r, p, FontNone, FALSE)
             \/ \E sf \in SysNames :
                  reg' = [r EXCEPT !.procs[p].sf = sf, !.procs[p].pc = "load"]
  /\ UNCHANGED exceptReg

\* FindSource: the look into sourceRegistry for the full name.
FindLoad ==
  /\ \E p \in Procs :
       /\ reg.procs[p].pc = "load"
       /\ LET s == LoadValue(reg, reg.procs[p].sf)
          IN reg' = IF s # FontNone THEN Return(reg, p, s, TRUE)
                    ELSE [reg EXCEPT !.procs[p].pc = "open"]
  /\ UNCHANGED exceptReg

\* FindSource: NewSourceFromFile fails, or gives a new source, with which
\* RegisterSource(sf.Name, s) runs up to runtime.AddCleanup.
FindOpen ==
  /\ \E p \in Procs :
       /\ reg.procs[p].pc = "open"
       /\ \/ reg' = Return(reg, p, FontNone, FALSE)
          \/ /\ reg.born < MaxSources
             /\ reg' = [reg EXCEPT !.born = reg.born + 1,
                                   !.procs[p].src = reg.born + 1,
                                   !.procs[p].pc = "register",
                                   !.cleanups = reg.cleanups
                                                  \cup {<<reg.procs[p].sf, reg.born + 1>>}]
  /\ UNCHANGED exceptReg

\* FindSource: sourceRegistry.Store(sf.Name, wp) of its RegisterSource, and the
\* return of the new source.
FindStore ==
  /\ \E p \in Procs :
       /\ reg.procs[p].pc = "register"
       /\ LET q == reg.procs[p]
              r == [reg EXCEPT !.map[q.sf] = q.src]
          IN reg' = Return(r, p, q.src, TRUE)
  /\ UNCHANGED exceptReg

\* The garbage collector finds source id unreachable.
GCollectOf(id) ==
  /\ id \in Sources \ reg.collected
  /\ ~Reachable(reg, id)
  /\ reg' = [reg EXCEPT !.collected = reg.collected \cup {id}]
  /\ UNCHANGED exceptReg

GCollect == \E id \in 1..MaxSources : GCollectOf(id)

\* The runtime runs cleanup c of a source found unreachable.
RunCleanupOf(c) ==
  /\ c \in reg.cleanups
  /\ c[2] \in reg.collected
  /\ LET r == cleanup(reg, c[1], c[2])
     IN reg' = [r EXCEPT !.cleanups = r.cleanups \ {c}, !.ran = r.ran \cup {c}]
  /\ UNCHANGED exceptReg

RunCleanup == \E c \in CleanupNames \X (1..MaxSources) : RunCleanupOf(c)

NextReg ==
  \/ NewSource
  \/ DropSource
  \/ RegisterStart
  \/ RegisterStore
  \/ FindStart
  \/ FindMatch
  \/ FindLoad
  \/ FindOpen
  \/ FindStore
  \/ GCollect
  \/ RunCleanup

SpecReg == Init /\ [][NextReg]_vars

\* The garbage collector finds every source that stays unreachable, and the
\* runtime runs every cleanup of a source found unreachable.
SpecRegLive ==
  /\ SpecReg
  /\ \A id \in 1..MaxSources : WF_vars(GCollectOf(id))
  /\ \A c \in CleanupNames \X (1..MaxSources) : WF_vars(RunCleanupOf(c))

\* C23 as stated: whenever FindSource(name) returns from a call that began
\* after the client's RegisterSource(name, s) completed, with s reachable and no
\* RegisterSource(name, ...) of the client since, it returns (s, true) and has
\* not consulted the system fonts; and FindSource never returns ok = true with
\* the nil source.
C23_FindReturnsRegistered ==
  reg.ret.returned =>
    /\ reg.ret.pre # FontNone => (reg.ret.src = reg.ret.pre /\ reg.ret.ok /\ ~reg.ret.sys)
    /\ reg.ret.ok => reg.ret.src # FontNone

----------------------------------------------------------------------------
(* StaticDeck and ChainDeck (specification SpecDeck).                      *)

\* Most slides in a StaticDeck, and most decks in the ChainDeck.
MaxSlides == 2

MaxDecks == 2

\* The sequences over S of length at most n.
SeqsUpTo(S, n) == UNION { [1..k -> S] : k \in 0..n }

\* d.Append(s...) with k slides.
staticAppend(d, k) ==
  [d EXCEPT !.slides = d.slides \o [i \in 1..k |-> Len(d.slides) + i]]

\* Faulty variant of staticNext: it advances from the last slide too.
staticNext_PastEnd(d) ==
  IF d.currSlide < Len(d.slides)
    THEN [d |-> [d EXCEPT !.currSlide = d.currSlide + 1], status |-> DeckOK]
    ELSE [d |-> d, status |-> DeckEnd]

\* d.Next() of a StaticDeck: the deck after the call and the status returned.
staticNext(d) ==
  IF d.currSlide < Len(d.slides) - 1
    THEN [d |-> [d EXCEPT !.currSlide = d.currSlide + 1], status |-> DeckOK]
    ELSE [d |-> d, status |-> DeckEnd]

\* d.Prev() of a StaticDeck.
staticPrev(d) ==
  IF d.currSlide > 0
    THEN [d |-> [d EXCEPT !.currSlide = d.currSlide - 1], status |-> DeckOK]
    ELSE [d |-> d, status |-> DeckEnd]

\* d.Update() and d.Draw(screen) of a StaticDeck: d.slides[d.currSlide], an
\* index out of range being a panic.
staticUpdate(d) ==
  IF d.currSlide >= 0 /\ d.currSlide < Len(d.slides)
    THEN [panic |-> FALSE, slide |-> d.slides[d.currSlide + 1]]
    ELSE [panic |-> TRUE, slide |-> 0]

\* Next or Prev of member m of the ChainDeck: the outcomes, each the
\* StaticDecks after the call and the status.  A StaticDeck has one outcome;
\* a deck of another implementation answers with any status.
memberStep(static, m, op) ==
  IF m = OtherDeck
    THEN { [static |-> static, status |-> st] : st \in DeckStatuses }
    ELSE LET r == IF op = "Next" THEN staticNext(static[m]) ELSE staticPrev(static[m])
         IN { [static |-> [static EXCEPT ![m] = r.d], status |-> r.status] }

\* Faulty variant of chainStep: it moves to the neighbouring deck whenever the
\* member did not answer DeckOK.
chainStep_OnBusy(c, static, op) ==
  IF ~(c.currDeck >= 0 /\ c.currDeck < Len(c.decks))
    THEN { [panic |-> TRUE, chain |-> c, static |-> static, status |-> DeckOK,
            fwdTo |-> OtherDeck, fwdStatus |-> DeckOK] }
    ELSE LET m == c.decks[c.currDeck + 1]
         IN { IF r.status = DeckOK
                THEN [panic |-> FALSE, chain |-> c, static |-> r.static, status |-> r.status,
                      fwdTo |-> m, fwdStatus |-> r.status]
              ELSE IF op = "Next" /\ c.currDeck < Len(c.decks) - 1
                THEN [panic |-> FALSE, chain |-> [c EXCEPT !.currDeck = c.currDeck + 1],
                      static |-> r.static, status |-> DeckOK, fwdTo |-> m,
                      fwdStatus |-> r.status]
              ELSE IF op = "Prev" /\ c.currDeck > 0
                THEN [panic |-> FALSE, chain |-> [c EXCEPT !.currDeck = c.currDeck - 1],
                      static |-> r.static, status |-> DeckOK, fwdTo |-> m,
                      fwdStatus |-> r.status]
              ELSE [panic |-> FALSE, chain |-> c, static |-> r.static, status |-> DeckEnd,
                    fwdTo |-> m, fwdStatus |-> r.status]
              : r \in memberStep(static, m, op) }

\* d.Next() and d.Prev() of the ChainDeck: the outcomes.  d.decks[d.currDeck]
\* with the index out of range is a panic.
chainStep(c, static, op) ==
  IF ~(c.currDeck >= 0 /\ c.currDeck < Len(c.decks))
    THEN { [panic |-> TRUE, chain |-> c, static |-> static, status |-> DeckOK,
            fwdTo |-> OtherDeck, fwdStatus |-> DeckOK] }
    ELSE LET m == c.decks[c.currDeck + 1]
         IN { IF r.status # DeckEnd
                THEN [panic |-> FALSE, chain |-> c, static |-> r.static, status |-> r.status,
                      fwdTo |-> m, fwdStatus |-> r.status]
              ELSE IF op = "Next" /\ c.currDeck < Len(c.decks) - 1
                THEN [panic |-> FALSE, chain |-> [c EXCEPT !.currDeck = c.currDeck + 1],
                      static |-> r.static, status |-> DeckOK, fwdTo |-> m,
                      fwdStatus |-> r.status]
              ELSE IF op = "Prev" /\ c.currDeck > 0
                THEN [panic |-> FALSE, chain |-> [c EXCEPT !.currDeck = c.currDeck - 1],
                      static |-> r.static, status |-> DeckOK, fwdTo |-> m,
                      fwdStatus |-> r.status]
              ELSE [panic |-> FALSE, chain |-> c, static |-> r.static, status |-> DeckEnd,
                    fwdTo |-> m, fwdStatus |-> r.status]
              : r \in memberStep(static, m, op) }

\* The record of a call on deck on.
DeckCall(op, on) ==
  [NoDeckCall EXCEPT !.op = op, !.on = on,
                     !.pre = IF on \in StaticDecks THEN deck.static[on] ELSE ZeroStaticDeck,
                     !.preChain = deck.chain,
                     !.prev = IF /\ deck.last.on = "chain"
                                 /\ deck.last.op \in {"Next", "Prev"}
                                 /\ deck.last.status = DeckOK
                                 /\ ~deck.last.panicked
                                THEN [op |-> deck.last.op, member |-> deck.last.fwdTo,
                                      currSlide |-> deck.last.pre.currSlide]
                                ELSE NoPrev]

\* nav after an Append.
AfterAppend == IF deck.nav = "setup" THEN "setup" ELSE "mixed"

\* StaticDeck.Append(s...).
StaticAppend ==
  /\ ~deck.last.panicked
  /\ \E on \in StaticDecks, k \in 0..MaxSlides :
       /\ Len(deck.static[on].slides) + k <= MaxSlides
       /\ deck' = [deck EXCEPT !.static[on] = staticAppend(deck.static[on], k),
                               !.last = DeckCall("Append", on),
                               !.nav = AfterAppend]
  /\ UNCHANGED exceptDeck

\* StaticDeck.Next(), called on a deck directly.
StaticNext ==
  /\ ~deck.last.panicked
  /\ \E on \in StaticDecks :
       LET r == staticNext(deck.static[on])
       IN deck' = [deck EXCEPT !.static[on] = r.d,
                               !.last = [DeckCall("Next", on) EXCEPT !.status = r.status],
                               !.nav = "mixed"]
  /\ UNCHANGED exceptDeck

\* StaticDeck.Prev(), called on a deck directly.
StaticPrev ==
  /\ ~deck.last.panicked
  /\ \E on \in StaticDecks :
       LET r == staticPrev(deck.static[on])
       IN deck' = [deck EXCEPT !.static[on] = r.d,
                               !.last = [DeckCall("Prev", on) EXCEPT !.status = r.status],
                               !.nav = "mixed"]
  /\ UNCHANGED exceptDeck

\* StaticDeck.Update() and StaticDeck.Draw(screen), called on a deck directly.
StaticUpdate ==
  /\ ~deck.last.panicked
  /\ \E on \in StaticDecks, op \in {"Update", "Draw"} :
       LET r == staticUpdate(deck.static[on])
       IN deck' = [deck EXCEPT !.last = [DeckCall(op, on) EXCEPT !.slide = r.slide,
                                                               !.panicked = r.panic]]
  /\ UNCHANGED exceptDeck

\* ChainDeck.Append(s...).
ChainAppend ==
  /\ ~deck.last.panicked
  /\ \E s \in SeqsUpTo(StaticDecks \cup {OtherDeck}, MaxDecks) :
       /\ Len(deck.chain.decks) + Len(s) <= MaxDecks
       /\ deck' = [deck EXCEPT !.chain.decks = deck.chain.decks \o s,
                               !.last = DeckCall("Append", "chain"),
                               !.nav = AfterAppend]
  /\ UNCHANGED exceptDeck

\* ChainDeck.Next() and ChainDeck.Prev().
ChainStep(op) ==
  /\ ~deck.last.panicked
  /\ \E r \in chainStep(deck.chain, deck.static, op) :
       deck' = [deck EXCEPT !.chain = r.chain, !.static = r.static,
                            !.last = [DeckCall(op, "chain") EXCEPT
                                        !.pre = IF r.fwdTo \in StaticDecks
                                                  THEN deck.static[r.fwdTo]
                                                  ELSE ZeroStaticDeck,
                                        !.status = r.status, !.fwd = ~r.panic,
                                        !.fwdTo = r.fwdTo, !.fwdStatus = r.fwdStatus,
                                        !.panicked = r.panic],
                            !.nav = IF deck.nav = "mixed" THEN "mixed" ELSE "chain"]
  /\ UNCHANGED exceptDeck

ChainNext == ChainStep("Next")

ChainPrev == ChainStep("Prev")

\* ChainDeck.Update() and ChainDeck.Draw(screen).
ChainUpdate ==
  /\ ~deck.last.panicked
  /\ \E op \in {"Update", "Draw"} :
       LET c == deck.chain
           inRange == c.currDeck >= 0 /\ c.currDeck < Len(c.decks)
           m == IF inRange THEN c.decks[c.currDeck + 1] ELSE OtherDeck
           r == IF inRange /\ m \in StaticDecks THEN staticUpdate(deck.static[m])
                ELSE [panic |-> ~inRange, slide |-> 0]
       IN deck' = [deck EXCEPT !.last = [DeckCall(op, "chain") EXCEPT
                                           !.fwd = inRange, !.fwdTo = m,
                                           !.slide = r.slide, !.panicked = r.panic]]
  /\ UNCHANGED exceptDeck

NextDeck ==
  \/ StaticAppend
  \/ StaticNext
  \/ StaticPrev
  \/ StaticUpdate
  \/ ChainAppend
  \/ ChainNext
  \/ ChainPrev
  \/ ChainUpdate

SpecDeck == Init /\ [][NextDeck]_vars

\* The latest call was op on a StaticDeck, directly.
StaticCall(op) == deck.last.op = op /\ deck.last.on \in StaticDecks

\* C25: a StaticDeck with at least one slide has 0 <= currSlide < len(slides),
\* so Update and Draw reach an existing slide; Next returns DeckOK and advances
\* by one exactly when a later slide exists, else DeckEnd with currSlide
\* unchanged; Prev likewise toward the first slide.
C25_StaticDeckInRange ==
  /\ \A on \in StaticDecks :
       LET d == deck.static[on]
       IN Len(d.slides) >= 1 => (0 <= d.currSlide /\ d.currSlide < Len(d.slides))
  /\ \A op \in {"Update", "Draw"} :
       (StaticCall(op) /\ Len(deck.last.pre.slides) >= 1) =>
         (~deck.last.panicked /\ deck.last.slide \in 1..Len(deck.last.pre.slides))
  /\ StaticCall("Next") =>
       LET pre  == deck.last.pre
           post == deck.static[deck.last.on]
       IN IF pre.currSlide + 1 < Len(pre.slides)
            THEN deck.last.status = DeckOK /\ post.currSlide = pre.currSlide + 1
            ELSE deck.last.status = DeckEnd /\ post.currSlide = pre.currSlide
  /\ StaticCall("Prev") =>
       LET pre  == deck.last.pre
           post == deck.static[deck.last.on]
       IN IF pre.currSlide >= 1
            THEN deck.last.status = DeckOK /\ post.currSlide = pre.currSlide - 1
            ELSE deck.last.status = DeckEnd /\ post.currSlide = pre.currSlide

\* Next was called on a StaticDeck standing on the last of its two slides and
\* answered DeckEnd.
C25_Witness ==
  /\ StaticCall("Next")
  /\ Len(deck.last.pre.slides) = 2
  /\ deck.last.pre.currSlide = 1
  /\ deck.last.status = DeckEnd

\* The latest call was op on the ChainDeck.
ChainCall(op) == deck.last.op = op /\ deck.last.on = "chain"

\* What C26 says of a Next (dir = 1, toward the last deck) or Prev (dir = -1,
\* toward the first) of a ChainDeck that has decks: the call went to the
\* current deck first; a status other than DeckEnd is returned as it is, with
\* currDeck unchanged; on DeckEnd the chain moves by one deck and returns
\* DeckOK, or returns DeckEnd with currDeck unchanged at the outermost deck.
ChainForwards(op, dir) ==
  (ChainCall(op) /\ Len(deck.last.preChain.decks) >= 1) =>
    LET pre  == deck.last.preChain
        m    == pre.decks[pre.currDeck + 1]
        more == IF dir = 1 THEN pre.currDeck < Len(pre.decks) - 1 ELSE pre.currDeck > 0
    IN /\ ~deck.last.panicked
       /\ deck.last.fwd
       /\ deck.last.fwdTo = m
       /\ m \in StaticDecks =>
            LET r == IF op = "Next" THEN staticNext(deck.last.pre) ELSE staticPrev(deck.last.pre)
            IN deck.static[m] = r.d /\ deck.last.fwdStatus = r.status
       /\ deck.chain.decks = pre.decks
       /\ IF deck.last.fwdStatus # DeckEnd
            THEN deck.last.status = deck.last.fwdStatus /\ deck.chain.currDeck = pre.currDeck
          ELSE IF more
            THEN deck.last.status = DeckOK /\ deck.chain.currDeck = pre.currDeck + dir
          ELSE deck.last.status = DeckEnd /\ deck.chain.currDeck = pre.currDeck

\* C26: ChainDeck.Next forwards to the current deck and returns DeckOK or
\* DeckBusy from it with currDeck unchanged; only on DeckEnd it advances
\* currDeck by one and returns DeckOK, or returns DeckEnd at the last deck; Prev
\* does the same toward the first deck.
C26_ChainForwardsFirst == ChainForwards("Next", 1) /\ ChainForwards("Prev", -1)

\* Next on a ChainDeck of two decks, standing on the first, whose current deck
\* answered DeckBusy.
C26_Witness ==
  /\ ChainCall("Next")
  /\ Len(deck.last.preChain.decks) = 2
  /\ deck.last.preChain.currDeck = 0
  /\ deck.last.fwdStatus = DeckBusy
  /\ deck.last.status = DeckBusy
  /\ deck.chain.currDeck = 0

\* The ChainDeck's members are StaticDecks with slides that no call but a Next
\* or Prev of the ChainDeck has navigated, and no Append followed a Next or
\* Prev: every member started on its first slide.
ChainOfStaticDecks ==
  /\ deck.nav \in {"setup", "chain"}
  /\ \A i \in DOMAIN deck.chain.decks :
       /\ deck.chain.decks[i] \in StaticDecks
       /\ Len(deck.static[deck.chain.decks[i]].slides) >= 1

\* No StaticDeck is a member of the ChainDeck twice.
DistinctMembers ==
  \A i, j \in DOMAIN deck.chain.decks :
    deck.chain.decks[i] = deck.chain.decks[j] => i = j

\* The slide the ChainDeck displays: the current slide of its current deck.
Displayed ==
  LET m == deck.chain.decks[deck.chain.currDeck + 1]
  IN [member |-> m, currSlide |-> deck.static[m].currSlide]

\* Every deck before currDeck is on its last slide and every deck after
\* currDeck on its first.
PassedDecksAtEnds ==
  \A i \in DOMAIN deck.chain.decks :
    LET d == deck.static[deck.chain.decks[i]]
    IN /\ i < deck.chain.currDeck + 1 => d.currSlide = Len(d.slides) - 1
       /\ i > deck.chain.currDeck + 1 => d.currSlide = 0

\* The latest call, op of the ChainDeck, followed a call of the opposite
\* direction that returned DeckOK, and displays the slide displayed before
\* that call.
StepBackRestores(op, opposite) ==
  (ChainCall(op) /\ deck.last.prev.op = opposite) =>
    /\ ~deck.last.panicked
    /\ Displayed = [member |-> deck.last.prev.member,
                    currSlide |-> deck.last.prev.currSlide]

\* C38 as stated: in a ChainDeck of StaticDecks with slides, navigated through
\* the chain alone from their first slides, every deck before currDeck is on
\* its last slide and every deck after currDeck on its first; a Next that
\* returned DeckOK followed by a Prev displays the slide displayed before, and
\* a Prev that returned DeckOK followed by a Next likewise.
C38_ChainKeepsEnds ==
  ChainOfStaticDecks =>
    /\ PassedDecksAtEnds
    /\ StepBackRestores("Prev", "Next")
    /\ StepBackRestores("Next", "Prev")

\* C38, amended: the same of a ChainDeck in which no deck is a member twice.
C38_DistinctChainKeepsEnds ==
  (ChainOfStaticDecks /\ DistinctMembers) =>
    /\ PassedDecksAtEnds
    /\ StepBackRestores("Prev", "Next")
    /\ StepBackRestores("Next", "Prev")

\* C38 witness: in a chain of two different decks of two slides each, a Next
\* moved from the last slide of the first deck to the second deck and the Prev
\* that followed moved back to the last slide of the first deck.
C38_Witness ==
  /\ ChainOfStaticDecks
  /\ DistinctMembers
  /\ deck.nav = "chain"
  /\ Len(deck.chain.decks) = 2
  /\ \A i \in DOMAIN deck.chain.decks : Len(deck.static[deck.chain.decks[i]].slides) = 2
  /\ ChainCall("Prev")
  /\ deck.last.prev.op = "Next"
  /\ deck.last.preChain.currDeck = 1
  /\ deck.chain.currDeck = 0
  /\ deck.last.status = DeckOK
  /\ Displayed = [member |-> deck.chain.decks[1], currSlide |-> 1]

----------------------------------------------------------------------------
(* Overlay and slideStack (specification SpecOverlay).                     *)

\* Most slides passed to Overlay.
MaxOverlay == 3

\* Overlay(dst, src0, src...): the slides of the slideStack.
Overlay(dst, src0, src) == <<dst, src0>> \o src

\* slideStack.Draw: the Draw calls made, in order.
slideStackDraw(slides) == [i \in 1..Len(slides) |-> [call |-> "Draw", slide |-> slides[i]]]

\* The first position of slides whose slide is in failing; Len(slides) + 1 when
\* there is none.
RECURSIVE FirstFailing(_, _, _)
FirstFailing(slides, failing, i) ==
  IF i > Len(slides) \/ slides[i] \in failing THEN i
  ELSE FirstFailing(slides, failing, i + 1)

\* Faulty variant of slideStackUpdate: it goes on after an error.
slideStackUpdate_GoesOn(slides, failing) ==
  [ trace |-> [i \in 1..Len(slides) |-> [call |-> "Update", slide |-> slides[i]]],
    err   |-> \E i \in 1..Len(slides) : slides[i] \in failing ]

\* slideStack.Update, the Update of the slides in failing returning an error:
\* the Update calls made, in order, and whether an error is returned.
slideStackUpdate(slides, failing) ==
  LET f == FirstFailing(slides, failing, 1)
      n == IF f <= Len(slides) THEN f ELSE Len(slides)
  IN [ trace |-> [i \in 1..n |-> [call |-> "Update", slide |-> slides[i]]],
       err   |-> f <= Len(slides) ]

\* Overlay(dst, src0, src...).
OverlayNew ==
  /\ \E dst \in Slides, src0 \in Slides, src \in SeqsUpTo(Slides, MaxOverlay - 2) :
       ovl' = [OvlInit EXCEPT !.slides = Overlay(dst, src0, src), !.op = "Overlay"]
  /\ UNCHANGED exceptOvl

\* Update of the slide Overlay returned; the update functions of the slides in
\* failing return an error this time.
OverlayUpdate ==
  /\ ovl.op # "none"
  /\ \E failing \in SUBSET DynamicSlides :
       LET r == slideStackUpdate(ovl.slides, failing)
       IN ovl' = [ovl EXCEPT !.op = "Update", !.trace = r.trace, !.failing = failing,
                             !.err = r.err]
  /\ UNCHANGED exceptOvl

\* Draw of the slide Overlay returned.
OverlayDraw ==
  /\ ovl.op # "none"
  /\ ovl' = [ovl EXCEPT !.op = "Draw", !.trace = slideStackDraw(ovl.slides),
                        !.failing = {}, !.err = FALSE]
  /\ UNCHANGED exceptOvl

NextOverlay ==
  \/ OverlayNew
  \/ OverlayUpdate
  \/ OverlayDraw

SpecOverlay == Init /\ [][NextOverlay]_vars

\* The calls of kind call on every slide of the stack, in the order dst, src0,
\* src....
AllInOrder(call) == [i \in 1..Len(ovl.slides) |-> [call |-> call, slide |-> ovl.slides[i]]]

----------------------------------------------------------------------------
(* Context: paths, drawing and Arrow (specification SpecCtx).              *)

\* Most commands in the current path when a path primitive is called.
MaxPath == 2

\* The points, translations and line widths the client uses.
CtxPoints == {Pt(0, 0), Pt(10, 0), Pt(10, 10)}

CtxOffsets == {Pt(0, 0), Pt(10, 10)}

CtxWidths == {1, 2}

\* Method.
Fill == "Fill"

Stroke == "Stroke"

\* Arrow head length multiplier.
ahMul == 7

\* A point of user space: its coordinates, and the vector added to them, which
\* is kept as written: Vec(from, to).Normalize().Scale(len).Rotate(turn * th).
UserPt(p, plus) == [X |-> p.X, Y |-> p.Y, plus |-> plus]

\* c.TransformPoint(pt): the translation applied.
TransformPoint(c, pt) == [pt EXCEPT !.X = pt.X + c.matrix.X, !.Y = pt.Y + c.matrix.Y]

\* c.MoveTo(pt), c.LineTo(pt), c.ClosePath(), c.ClearPath().
MoveTo(c, pt) == [c EXCEPT !.path = Append(c.path, [cmd |-> "MoveTo", pt |-> TransformPoint(c, pt)])]

LineTo(c, pt) == [c EXCEPT !.path = Append(c.path, [cmd |-> "LineTo", pt |-> TransformPoint(c, pt)])]

ClosePath(c) == [c EXCEPT !.path = Append(c.path, [cmd |-> "Close", pt |-> UserPt(Pt(0, 0), NoVec)])]

ClearPath(c) == [c EXCEPT !.path = <<>>]

\* c.Draw(m, preserve): the current path is drawn to dst with method m and,
\* unless preserve, cleared.
Draw(c, m, preserve) ==
  LET d == [c EXCEPT !.last.draws = Append(c.last.draws,
                                           [method |-> m, path |-> c.path, width |-> c.width])]
  IN IF preserve THEN d ELSE ClearPath(d)

\* c.WithEmpty(f), f given by the Context it leaves behind when started on c
\* with an empty path: the path is swapped back afterwards.
WithEmpty(c, f) == [f EXCEPT !.path = c.path]

\* The function Arrow passes to WithEmpty.
ArrowBody(c, src, dst) ==
  LET c1  == Draw(LineTo(MoveTo(c, UserPt(src, NoVec)), UserPt(src, NoVec)), Stroke, FALSE)
      vec == [from |-> dst, to |-> src, len |-> ahMul * c.width, turn |-> 1]
      ah0 == UserPt(dst, vec)
      ah1 == UserPt(dst, [vec EXCEPT !.turn = -1])
  IN Draw(ClosePath(LineTo(LineTo(MoveTo(c1, UserPt(dst, NoVec)), ah0), ah1)), Fill, FALSE)

\* c.Arrow(src, dst).
Arrow(c, src, dst) == WithEmpty(c, ArrowBody(ClearPath(c), src, dst))

\* The record of a call that starts on the current Context.
CtxCall(op, src, dst) ==
  [ctx EXCEPT !.last = [NoCtxCall EXCEPT !.op = op, !.src = src, !.dst = dst,
                                         !.prePath = ctx.path]]

\* Translate and SetLineWidth.
CtxSet ==
  /\ \E o \in CtxOffsets, w \in CtxWidths :
       ctx' = [CtxCall("Set", Pt(0, 0), Pt(0, 0)) EXCEPT !.matrix = o, !.width = w]
  /\ UNCHANGED exceptCtx

\* MoveTo, LineTo and ClosePath.
CtxPath ==
  /\ Len(ctx.path) < MaxPath
  /\ \E pt \in CtxPoints :
       \/ ctx' = MoveTo(CtxCall("MoveTo", pt, pt), UserPt(pt, NoVec))
       \/ ctx' = LineTo(CtxCall("LineTo", pt, pt), UserPt(pt, NoVec))
       \/ ctx' = ClosePath(CtxCall("ClosePath", Pt(0, 0), Pt(0, 0)))
  /\ UNCHANGED exceptCtx

\* Stroke, StrokePreserve, Fill, FillPreserve, and ClearPath.
CtxDraw ==
  /\ \/ \E m \in {Fill, Stroke}, preserve \in BOOLEAN :
          ctx' = Draw(CtxCall("Draw", Pt(0, 0), Pt(0, 0)), m, preserve)
     \/ ctx' = ClearPath(CtxCall("ClearPath", Pt(0, 0), Pt(0, 0)))
  /\ UNCHANGED exceptCtx

\* Arrow(src, dst).
CtxArrow ==
  /\ \E src \in CtxPoints, dst \in CtxPoints :
       ctx' = Arrow(CtxCall("Arrow", src, dst), src, dst)
  /\ UNCHANGED exceptCtx

NextCtx ==
  \/ CtxSet
  \/ CtxPath
  \/ CtxDraw
  \/ CtxArrow

SpecCtx == Init /\ [][NextCtx]_vars

\* C28 as stated: Arrow(src, dst) strokes a line path that starts at src and
\* ends at dst, fills an arrow head whose tip is dst, and leaves the current
\* path as it was.
C28_ArrowFromSrcToDst ==
  ctx.last.op = "Arrow" =>
    LET draws == ctx.last.draws
        src   == TransformPoint(ctx, UserPt(ctx.last.src, NoVec))
        dst   == TransformPoint(ctx, UserPt(ctx.last.dst, NoVec))
    IN /\ Len(draws) = 2
       /\ draws[1].method = Stroke
       /\ Len(draws[1].path) = 2
       /\ draws[1].path[1] = [cmd |-> "MoveTo", pt |-> src]
       /\ draws[1].path[2] = [cmd |-> "LineTo", pt |-> dst]
       /\ draws[2].method = Fill
       /\ draws[2].path[1] = [cmd |-> "MoveTo", pt |-> dst]
       /\ draws[2].path[Len(draws[2].path)].cmd = "Close"
       /\ ctx.path = ctx.last.prePath

====
